---- MODULE Spec2Model ----
(***************************************************************************)
(* Model of the HTI time-banded control harness (moviesR/hti-zen-harness): *)
(* the single-DOF demo (hti_v0_demo, "v0") and the 2-DOF arm demo          *)
(* (hti_arm_demo, "arm").                                                  *)
(*                                                                         *)
(* Numbers.  Python floats are modelled in fixed point.                    *)
(*   v0 : positions, actions and confidences in units of 1e-9              *)
(*        (1.0 = 10^9, 0.05 = 5*10^7, the Shield's epsilon 1e-9 = 1).      *)
(*   arm: torques in units of 1/16 N.m (TAU_MAX 5.0 = 80), velocities in   *)
(*        units of 1/1600 rad/s, angles in units of 1/160000 rad, so that  *)
(*        one 0.01 s step adds a torque to a velocity and a velocity to an *)
(*        angle without rescaling.  A scale factor is held in quarters     *)
(*        (1.0 = 4, 0.5 = 2, 0.25 = 1).                                    *)
(*   time: t in units of 0.01 s.                                           *)
(* Optional values: None is <<>>, a present value v is <<v>>.              *)
(***************************************************************************)
EXTENDS Integers, Sequences, FiniteSets, TLC

VARIABLES
    variant,              \* "v0" (hti_v0_demo) or "arm" (hti_arm_demo)
    cfg,                  \* the SafetyShield instance: u_min, u_max (, near_limit_scale)
    tick, t, obs,         \* SharedState / ArmSharedState fields
    action_proposed, action_final,
    semantics_advice, reflex_flags,
    brain_name, shield_interventions,
    events,               \* EventLogger.events
    ctrl,                 \* ControlBand instance fields
    env,                  \* environment instance fields
    pc,                   \* position of the caller / of run_episode
    loop,                 \* run_episode locals: tick, done, info, safe_u, ...
    trace,                \* operations executed so far in the current tick
    last_op, raised, ret, \* last operation called, the exception it raised, its return value
    pre,                  \* the shared state as it was when the last operation was called
    ncalls,               \* operations called so far by the caller / run_episode calls made before this one
    hist,                 \* per operation, the ticks of the episode in which it has run
    file,                 \* the lines of the JSONL file at the logger's path
    fk,                   \* forward_kinematics as evaluated so far: pairs << pose, point >>
    prev                  \* what the previous run_episode call was given and produced

vars == << variant, cfg, tick, t, obs, action_proposed, action_final,
           semantics_advice, reflex_flags, brain_name, shield_interventions,
           events, ctrl, env, pc, loop, trace, last_op, raised, ret, pre, ncalls,
           hist, file, fk, prev >>

shared == << tick, t, obs, action_proposed, action_final,
             semantics_advice, reflex_flags, brain_name, shield_interventions >>

-----------------------------------------------------------------------------
(* Helpers *)

None == << >>

Some(v) == << v >>

IsNone(o) == o = << >>

Val(o) == o[1]

Abs(x) == IF x < 0 THEN -x ELSE x

Min(a, b) == IF a <= b THEN a ELSE b

Max(a, b) == IF a >= b THEN a ELSE b

\* dict.get(key, default)
Get(d, k, dflt) == IF k \in DOMAIN d THEN d[k] ELSE dflt

HasAttr(r, k) == k \in DOMAIN r

-----------------------------------------------------------------------------
(* Program constants *)

\* v0 (units of 1e-9)
V0_U_MAX_DEFAULT == 50000000

V0_ONE == 1000000000

V0_EPS == 1

V0_BOUNDARY_MARGIN == 100000000

V0_SPEED_THRESHOLD == 80000000

V0_MISMATCH_THRESHOLD == 50000000

\* arm
TAU_MAX == 80

SCALE_ONE == 4

NEAR_LIMIT_SCALE == 2

-----------------------------------------------------------------------------
(* hti_v0_demo/shared_state.py *)

\* ReflexFlags(): the dataclass declares exactly these three fields
V0DefaultReflexFlags ==
    [near_boundary |-> FALSE, too_fast |-> FALSE, distance_to_boundary |-> 0]

\* SemanticsAdvice()
V0DefaultAdvice == [direction_hint |-> 0, confidence |-> 0]

-----------------------------------------------------------------------------
(* hti_v0_demo/shield.py : SafetyShield.apply                               *)
(* The result says what the call did: exc ("" when it returned), whether    *)
(* it assigned state.action_final before returning or raising, the value    *)
(* assigned, and the EventPack returned (None when none or when it raised). *)

V0ShieldMetadata(flags) ==
    [near_boundary        |-> flags.near_boundary,
     too_fast             |-> flags.too_fast,
     distance_to_boundary |-> flags.distance_to_boundary,
     sensor_mismatch      |-> flags.sensor_mismatch,
     mismatch_magnitude   |-> flags.mismatch_magnitude]

V0EventPack(tk, tm, o, proposed, final, reason, flags) ==
    [timestamp |-> tm, tick |-> tk, band |-> "SafetyShield", obs_before |-> o,
     action_proposed |-> proposed, action_final |-> final, reason |-> reason,
     metadata |-> V0ShieldMetadata(flags)]

\* the comparison of shield.py line 101
V0Intervened(safe, proposed) == Abs(safe - proposed) > V0_EPS

\* mutant: too_fast also selects the stricter bound
V0ConservativeAnyHazard(flags) == flags.near_boundary \/ flags.too_fast

\* the bound selection of shield.py lines 80-91
V0Conservative(flags) == flags.near_boundary

V0ShieldApply(c, proposal, flags, o, tk, tm) ==
    LET proposed == IF IsNone(proposal) THEN 0 ELSE Val(proposal) IN
    IF ~HasAttr(flags, "sensor_mismatch")
    THEN \* line 56 reads a field the record does not have
         [exc |-> "AttributeError", wrote |-> FALSE, final |-> 0, event |-> None]
    ELSE IF flags.sensor_mismatch
    THEN IF ~HasAttr(flags, "mismatch_magnitude")
         THEN \* line 58 has assigned action_final; line 74 raises
              [exc |-> "AttributeError", wrote |-> TRUE, final |-> 0, event |-> None]
         ELSE [exc |-> "", wrote |-> TRUE, final |-> 0,
               event |-> Some(V0EventPack(tk, tm, o, proposed, 0,
                                          "stop_sensor_mismatch", flags))]
    ELSE LET conservative == V0Conservative(flags)
             lo == IF conservative THEN c.u_min \div 2 ELSE c.u_min
             hi == IF conservative THEN c.u_max \div 2 ELSE c.u_max
             reason == IF conservative THEN "clip_near_boundary"
                                       ELSE "clip_out_of_bounds"
             safe == Max(lo, Min(hi, proposed))
         IN  IF ~V0Intervened(safe, proposed)
             THEN [exc |-> "", wrote |-> TRUE, final |-> safe, event |-> None]
             ELSE IF ~HasAttr(flags, "mismatch_magnitude")
             THEN \* line 97 has assigned action_final; line 115 raises
                  [exc |-> "AttributeError", wrote |-> TRUE, final |-> safe,
                   event |-> None]
             ELSE [exc |-> "", wrote |-> TRUE, final |-> safe,
                   event |-> Some(V0EventPack(tk, tm, o, proposed, safe,
                                              reason, flags))]

-----------------------------------------------------------------------------
(* hti_arm_demo/bands/shield.py : SafetyShield                              *)

ArmClip(c, value) == Max(c.u_min, Min(c.u_max, value))

\* mutant: any number of hazards scales once
ArmScaleOnce(c, flags) ==
    IF IsNone(flags) THEN SCALE_ONE
    ELSE LET f == Val(flags) IN
         IF f.joint1_near_limit \/ f.joint2_near_limit \/ f.joints_too_fast
         THEN (SCALE_ONE * c.near_limit_scale) \div SCALE_ONE
         ELSE SCALE_ONE

\* scale, in quarters: halved once per active hazard class
ArmScale(c, flags) ==
    IF IsNone(flags) THEN SCALE_ONE
    ELSE LET f == Val(flags)
             s1 == IF f.joint1_near_limit \/ f.joint2_near_limit
                   THEN (SCALE_ONE * c.near_limit_scale) \div SCALE_ONE
                   ELSE SCALE_ONE
         IN  IF f.joints_too_fast THEN (s1 * c.near_limit_scale) \div SCALE_ONE
                                  ELSE s1

ArmScaled(tau, scale) == (tau * scale) \div SCALE_ONE

\* the comparison of bands/shield.py line 87
\* mutant: only the first joint's torque is compared
ArmIntervenedFirstJoint(final, proposed) == final[1] # proposed[1]

ArmIntervened(final, proposed) == final # proposed

\* mutant: the final action is logged in the place of the proposal
ArmEventPackLogsFinalTwice(tk, tm, o, proposed, final, scale, bname) ==
    [timestamp |-> tm, tick |-> tk, band |-> "SafetyShield", obs_before |-> o,
     action_proposed |-> final, action_final |-> final,
     reason |-> "clip_or_scale",
     metadata |-> [scaled |-> scale # SCALE_ONE, scale_factor |-> scale,
                   brain_name |-> bname]]

ArmEventPack(tk, tm, o, proposed, final, scale, bname) ==
    [timestamp |-> tm, tick |-> tk, band |-> "SafetyShield", obs_before |-> o,
     action_proposed |-> proposed, action_final |-> final,
     reason |-> "clip_or_scale",
     metadata |-> [scaled |-> scale # SCALE_ONE, scale_factor |-> scale,
                   brain_name |-> bname]]

ArmShieldApply(c, proposal, flags, o, tk, tm, bname) ==
    LET proposed == IF IsNone(proposal) THEN << 0, 0 >> ELSE Val(proposal)
        scale == ArmScale(c, flags)
        final == << ArmClip(c, ArmScaled(proposed[1], scale)),
                    ArmClip(c, ArmScaled(proposed[2], scale)) >>
    IN  [exc |-> "", wrote |-> TRUE, final |-> final,
         event |-> IF ArmIntervened(final, proposed)
                   THEN Some(ArmEventPack(tk, tm, o, proposed, final, scale, bname))
                   ELSE None]

-----------------------------------------------------------------------------
(* hti_v0_demo/bands/semantics.py : SemanticsBand.step                      *)

V0_CLOSE == 50000000

V0_CONF_CLOSE == 900000000

V0_CONF_BASE == 500000000

V0SemanticsAdvice(o) ==
    LET x        == Get(o, "x", 0)
        x_target == Get(o, "x_target", 0)
        error    == x_target - x
    IN  IF Abs(error) < V0_CLOSE
        THEN [direction_hint |-> 0, confidence |-> V0_CONF_CLOSE]
        ELSE IF error > 0
        THEN [direction_hint |-> 1,
              confidence |-> Min(V0_CONF_BASE + Abs(error), V0_ONE)]
        ELSE [direction_hint |-> -1,
              confidence |-> Min(V0_CONF_BASE + Abs(error), V0_ONE)]

(* hti_v0_demo/bands/control.py : ControlBand.step                          *)

V0_GAIN_TENTHS == 3

V0_CONF_HIGH == 700000000

V0_CONF_LOW == 300000000

V0ControlAction(gain_tenths, o, advice) ==
    LET x        == Get(o, "x", 0)
        x_target == Get(o, "x_target", 0)
        error    == x_target - x
        action   == (gain_tenths * error) \div 10
    IN  IF advice.confidence > V0_CONF_HIGH THEN action
        ELSE IF advice.confidence < V0_CONF_LOW THEN action \div 2
        ELSE action

(* hti_v0_demo/bands/reflex.py : ReflexBand.step                            *)

\* the keyword arguments of the ReflexFlags(...) call of lines 65-71
V0ReflexComputed(o, proposal) ==
    LET x_true == Get(o, "x_true", Get(o, "x", 0))
        x_meas == Get(o, "x_meas", Get(o, "x", 0))
        action == IF IsNone(proposal) THEN 0 ELSE Val(proposal)
        dist   == Min(x_true - 0, V0_ONE - x_true)
        mag    == Abs(x_true - x_meas)
    IN  [near_boundary        |-> dist < V0_BOUNDARY_MARGIN,
         too_fast             |-> Abs(action) > V0_SPEED_THRESHOLD,
         distance_to_boundary |-> dist,
         sensor_mismatch      |-> mag > V0_MISMATCH_THRESHOLD,
         mismatch_magnitude   |-> mag]

\* the generated dataclass __init__: a keyword that is no field is a TypeError
V0ReflexFlagsInit(kwargs) ==
    IF DOMAIN kwargs \subseteq DOMAIN V0DefaultReflexFlags
    THEN [exc |-> "", value |-> kwargs]
    ELSE [exc |-> "TypeError", value |-> V0DefaultReflexFlags]

V0ReflexStep(o, proposal) == V0ReflexFlagsInit(V0ReflexComputed(o, proposal))

-----------------------------------------------------------------------------
(* hti_arm_demo: bands/semantics.py, bands/reflex.py, env.py constants      *)
(* workspace coordinates in millimetres                                     *)

WORKSPACE_TOL == 30

THETA_MAX == 502655

OMEGA_MAX == 6400

JOINT_LIMIT_MARGIN == 48000

VELOCITY_FAST_TENTHS == 7

THETA_MIN == -THETA_MAX

ArmSemanticsAdvice(o) ==
    LET dx == o.x_goal - o.x_ee
        dy == o.y_goal - o.y_ee
    IN  [stage_index    |-> o.stage_index,
         x_goal         |-> o.x_goal,
         y_goal         |-> o.y_goal,
         \* sqrt(dx*dx + dy*dy) <= WORKSPACE_TOL
         stage_complete |-> dx * dx + dy * dy <= WORKSPACE_TOL * WORKSPACE_TOL]

ArmReflexFlags(o) ==
    LET d1 == Min(Abs(o.theta1 - THETA_MIN), Abs(THETA_MAX - o.theta1))
        d2 == Min(Abs(o.theta2 - THETA_MIN), Abs(THETA_MAX - o.theta2))
        fast == (VELOCITY_FAST_TENTHS * OMEGA_MAX) \div 10
    IN  [joint1_near_limit        |-> d1 <= JOINT_LIMIT_MARGIN,
         joint2_near_limit        |-> d2 <= JOINT_LIMIT_MARGIN,
         joint1_distance_to_limit |-> d1,
         joint2_distance_to_limit |-> d2,
         joints_too_fast          |-> Abs(o.omega1) >= fast \/ Abs(o.omega2) >= fast,
         near_obstacle            |-> FALSE,
         obstacle_distance        |-> None]

(* hti_arm_demo/bands/control.py : ControlBand                              *)
(* The brain is injected: its answer ((tau1, tau2), new_state) is an input. *)

ArmControlNew(name) == [brain_name |-> name, brain_state |-> << >>, initialized |-> FALSE]

\* mutant: the policy memory survives the reset
ArmResetEpisodeKeepsMemory(c) == [c EXCEPT !.initialized = TRUE]

ArmResetEpisode(c) == [c EXCEPT !.brain_state = << >>, !.initialized = TRUE]

\* mutant: the reset guard is missing
ArmControlStepUnguarded(c, answer) ==
    [exc |-> "", ctrl |-> [c EXCEPT !.brain_state = answer.state],
     wrote |-> TRUE, proposed |-> answer.tau, name |-> c.brain_name]

ArmControlStep(c, answer) ==
    IF ~c.initialized
    THEN [exc |-> "RuntimeError", ctrl |-> c, wrote |-> FALSE,
          proposed |-> << 0, 0 >>, name |-> c.brain_name]
    ELSE [exc |-> "", ctrl |-> [c EXCEPT !.brain_state = answer.state],
          wrote |-> TRUE, proposed |-> answer.tau, name |-> c.brain_name]

-----------------------------------------------------------------------------
(* Band and Shield calls as state changes of the shared state.  Each sets   *)
(* raised (the exception, "" when the call returned) and ret (the value     *)
(* returned) and leaves alone every field the code does not assign.         *)

\* mutant: Semantics turns its direction hint into a proposal
V0SemanticsStepWritesProposal ==
    /\ semantics_advice' = V0SemanticsAdvice(obs)
    /\ action_proposed' = Some(V0SemanticsAdvice(obs).direction_hint * V0_U_MAX_DEFAULT)
    /\ raised' = "" /\ ret' = None
    /\ UNCHANGED << tick, t, obs, action_final, reflex_flags,
                    brain_name, shield_interventions, events, ctrl >>

V0SemanticsStep ==
    /\ semantics_advice' = V0SemanticsAdvice(obs)
    /\ raised' = "" /\ ret' = None
    /\ UNCHANGED << tick, t, obs, action_proposed, action_final, reflex_flags,
                    brain_name, shield_interventions, events, ctrl >>

V0ControlStep ==
    /\ action_proposed' = Some(V0ControlAction(ctrl.gain_tenths, obs, semantics_advice))
    /\ raised' = "" /\ ret' = None
    /\ UNCHANGED << tick, t, obs, action_final, semantics_advice, reflex_flags,
                    brain_name, shield_interventions, events, ctrl >>

V0ReflexBandStep ==
    LET r == V0ReflexStep(obs, action_proposed) IN
    /\ reflex_flags' = IF r.exc = "" THEN r.value ELSE reflex_flags
    /\ raised' = r.exc /\ ret' = None
    /\ UNCHANGED << tick, t, obs, action_proposed, action_final, semantics_advice,
                    brain_name, shield_interventions, events, ctrl >>

\* apply returns (safe_action, event); the caller does the logging
V0ShieldStep ==
    LET r == V0ShieldApply(cfg, action_proposed, reflex_flags, obs, tick, t) IN
    /\ action_final' = IF r.wrote THEN Some(r.final) ELSE action_final
    /\ raised' = r.exc
    /\ ret' = IF r.exc = "" THEN Some([safe_u |-> r.final, event |-> r.event]) ELSE None
    /\ UNCHANGED << tick, t, obs, action_proposed, semantics_advice, reflex_flags,
                    brain_name, shield_interventions, ctrl >>

\* mutant: advice once given is kept
ArmSemanticsStepKeepsOld ==
    LET ok == { "x_ee", "y_ee", "x_goal", "y_goal", "stage_index" } \subseteq DOMAIN obs IN
    /\ semantics_advice' = IF ok /\ IsNone(semantics_advice)
                           THEN Some(ArmSemanticsAdvice(obs)) ELSE semantics_advice
    /\ raised' = IF ok THEN "" ELSE "KeyError"
    /\ ret' = None
    /\ UNCHANGED << tick, t, obs, action_proposed, action_final, reflex_flags,
                    brain_name, shield_interventions, events, ctrl >>

ArmSemanticsStep ==
    LET ok == { "x_ee", "y_ee", "x_goal", "y_goal", "stage_index" } \subseteq DOMAIN obs IN
    /\ semantics_advice' = IF ok THEN Some(ArmSemanticsAdvice(obs)) ELSE semantics_advice
    /\ raised' = IF ok THEN "" ELSE "KeyError"
    /\ ret' = None
    /\ UNCHANGED << tick, t, obs, action_proposed, action_final, reflex_flags,
                    brain_name, shield_interventions, events, ctrl >>

\* mutant: Control also commits its proposal as the final action
ArmControlBandStepWritesFinal(answer) ==
    LET r == ArmControlStep(ctrl, answer) IN
    /\ ctrl' = r.ctrl
    /\ action_proposed' = IF r.wrote THEN Some(r.proposed) ELSE action_proposed
    /\ action_final' = IF r.wrote THEN Some(r.proposed) ELSE action_final
    /\ brain_name' = IF r.wrote THEN r.name ELSE brain_name
    /\ raised' = r.exc /\ ret' = None
    /\ UNCHANGED << tick, t, obs, semantics_advice, reflex_flags,
                    shield_interventions, events >>

\* mutant: Control does not pass its policy's name on
ArmControlBandStepKeepsName(answer) ==
    LET r == ArmControlStep(ctrl, answer) IN
    /\ ctrl' = r.ctrl
    /\ action_proposed' = IF r.wrote THEN Some(r.proposed) ELSE action_proposed
    /\ raised' = r.exc /\ ret' = None
    /\ UNCHANGED << tick, t, obs, action_final, semantics_advice, reflex_flags,
                    brain_name, shield_interventions, events >>

ArmControlBandStep(answer) ==
    LET r == ArmControlStep(ctrl, answer) IN
    /\ ctrl' = r.ctrl
    /\ action_proposed' = IF r.wrote THEN Some(r.proposed) ELSE action_proposed
    /\ brain_name' = IF r.wrote THEN r.name ELSE brain_name
    /\ raised' = r.exc /\ ret' = None
    /\ UNCHANGED << tick, t, obs, action_final, semantics_advice, reflex_flags,
                    shield_interventions, events >>

\* mutant: Reflex brakes by itself, zeroing the proposal
ArmReflexBandStepZeroesProposal ==
    LET ok == { "theta1", "theta2", "omega1", "omega2" } \subseteq DOMAIN obs IN
    /\ reflex_flags' = IF ok THEN Some(ArmReflexFlags(obs)) ELSE reflex_flags
    /\ action_proposed' = IF ok THEN Some(<< 0, 0 >>) ELSE action_proposed
    /\ raised' = IF ok THEN "" ELSE "KeyError"
    /\ ret' = None
    /\ UNCHANGED << tick, t, obs, action_final, semantics_advice,
                    brain_name, shield_interventions, events, ctrl >>

ArmReflexBandStep ==
    LET ok == { "theta1", "theta2", "omega1", "omega2" } \subseteq DOMAIN obs IN
    /\ reflex_flags' = IF ok THEN Some(ArmReflexFlags(obs)) ELSE reflex_flags
    /\ raised' = IF ok THEN "" ELSE "KeyError"
    /\ ret' = None
    /\ UNCHANGED << tick, t, obs, action_proposed, action_final, semantics_advice,
                    brain_name, shield_interventions, events, ctrl >>

\* mutant: the newest event is put at the head of the list
ArmShieldStepPrepends ==
    LET r == ArmShieldApply(cfg, action_proposed, reflex_flags, obs, tick, t, brain_name) IN
    /\ action_final' = Some(r.final)
    /\ shield_interventions' = IF IsNone(r.event) THEN shield_interventions
                               ELSE shield_interventions + 1
    /\ events' = IF IsNone(r.event) THEN events ELSE << Val(r.event) >> \o events
    /\ raised' = r.exc /\ ret' = None
    /\ UNCHANGED << tick, t, obs, action_proposed, semantics_advice, reflex_flags,
                    brain_name, ctrl >>

\* mutant: every Shield call counts as an intervention
ArmShieldStepCountsCalls ==
    LET r == ArmShieldApply(cfg, action_proposed, reflex_flags, obs, tick, t, brain_name) IN
    /\ action_final' = Some(r.final)
    /\ shield_interventions' = shield_interventions + 1
    /\ events' = IF IsNone(r.event) THEN events ELSE Append(events, Val(r.event))
    /\ raised' = r.exc /\ ret' = None
    /\ UNCHANGED << tick, t, obs, action_proposed, semantics_advice, reflex_flags,
                    brain_name, ctrl >>

\* apply(state, events) appends to the list it is handed and returns None
ArmShieldStep ==
    LET r == ArmShieldApply(cfg, action_proposed, reflex_flags, obs, tick, t, brain_name) IN
    /\ action_final' = Some(r.final)
    /\ shield_interventions' = IF IsNone(r.event) THEN shield_interventions
                               ELSE shield_interventions + 1
    /\ events' = IF IsNone(r.event) THEN events ELSE Append(events, Val(r.event))
    /\ raised' = r.exc /\ ret' = None
    /\ UNCHANGED << tick, t, obs, action_proposed, semantics_advice, reflex_flags,
                    brain_name, ctrl >>

-----------------------------------------------------------------------------
(* Bounds and input sets *)

MaxCalls == 2

\* hti_v0_demo/shield.py SafetyShield.__init__
V0ShieldInit(u_min, u_max) ==
    IF u_min > u_max
    THEN [exc |-> "ValueError", shield |-> [u_min |-> 0, u_max |-> 0]]
    ELSE [exc |-> "", shield |-> [u_min |-> u_min, u_max |-> u_max]]

\* hti_arm_demo/bands/shield.py SafetyShield: the generated dataclass __init__
ArmShieldInit(u_min, u_max, scale) ==
    [exc |-> "",
     shield |-> [u_min |-> u_min, u_max |-> u_max, near_limit_scale |-> scale]]

\* (u_min, u_max) arguments a caller may construct a Shield with
ShieldBoundPairs ==
    IF variant = "v0"
    THEN { << -V0_U_MAX_DEFAULT, V0_U_MAX_DEFAULT >>,
           << V0_U_MAX_DEFAULT, -V0_U_MAX_DEFAULT >> }
    ELSE { << -TAU_MAX, TAU_MAX >>, << TAU_MAX, 16 >> }

\* SafetyShield(u_min, u_max) instances with u_min <= u_max
V0Configs ==
    { [u_min |-> -V0_U_MAX_DEFAULT, u_max |-> V0_U_MAX_DEFAULT],
      [u_min |-> 2 * V0_U_MAX_DEFAULT, u_max |-> 4 * V0_U_MAX_DEFAULT] }

ArmConfigs ==
    { [u_min |-> -TAU_MAX, u_max |-> TAU_MAX, near_limit_scale |-> NEAR_LIMIT_SCALE],
      [u_min |-> 16, u_max |-> TAU_MAX, near_limit_scale |-> NEAR_LIMIT_SCALE] }

\* proposals: 0, 0.03, 0.10, -0.10, and u_max + 1e-9, u_max + 2e-9, u_max/2 + 2e-9
V0Proposals ==
    { 0, 30000000, 100000000, -100000000,
      V0_U_MAX_DEFAULT + 1, V0_U_MAX_DEFAULT + 2, (V0_U_MAX_DEFAULT \div 2) + 2 }

V0ObsSet ==
    { [x |-> 500000000, x_target |-> 800000000],
      [x |-> 950000000, x_true |-> 950000000, x_meas |-> 950000000,
       x_target |-> 800000000],
      [x |-> 790000000, x_true |-> 790000000, x_meas |-> 1000000000,
       x_target |-> 800000000] }

\* a ReflexFlags instance: the three declared fields, and the attributes a
\* caller may have assigned on it (none, sensor_mismatch, or both v0.2 names)
V0FlagsSet ==
    LET base == [near_boundary : BOOLEAN, too_fast : BOOLEAN,
                 distance_to_boundary : {0}]
    IN  base
        \cup { [near_boundary |-> b.near_boundary, too_fast |-> b.too_fast,
                distance_to_boundary |-> 0, sensor_mismatch |-> m]
               : b \in base, m \in BOOLEAN }
        \cup { [near_boundary |-> b.near_boundary, too_fast |-> b.too_fast,
                distance_to_boundary |-> 0, sensor_mismatch |-> m,
                mismatch_magnitude |-> IF m THEN 300000000 ELSE 0]
               : b \in base, m \in BOOLEAN }

V0AdviceSet == { V0DefaultAdvice, [direction_hint |-> 1, confidence |-> 800000000] }

ArmTauPairs == { << 0, 0 >>, << 40, -24 >>, << 96, 8 >>, << -320, 84 >> }

\* what an injected brain may answer: torques and its new memory
ArmBrainAnswers == [tau : { << 40, -24 >>, << -320, 84 >> }, state : { << >>, << 1 >> }]

\* BrainPolicy.step(obs, brain_state) of the brain called name, as the set of
\* answers it may give.  "alternating" counts its calls in its memory and
\* asks for an out-of-range torque on every other call, "saturating" always
\* asks for one and hands its memory back, "steady" never does; any other
\* brain may answer anything.
ArmBrainStep(name, memory) ==
    LET n == IF memory = << >> THEN 0 ELSE memory[1] IN
    IF name = "alternating"
    THEN { [tau |-> IF n % 2 = 0 THEN << 96, 8 >> ELSE << 40, -24 >>,
            state |-> << (n + 1) % 2 >>] }
    ELSE IF name = "saturating" THEN { [tau |-> << -320, 84 >>, state |-> memory] }
    ELSE IF name = "steady" THEN { [tau |-> << 40, -24 >>, state |-> memory] }
    ELSE ArmBrainAnswers

ArmObsAt(th1, th2, om1, om2, xe, ye, stage) ==
    [theta1 |-> th1, theta2 |-> th2, omega1 |-> om1, omega2 |-> om2,
     x_ee |-> xe, y_ee |-> ye,
     x_goal |-> IF stage = 0 THEN 700 ELSE IF stage = 1 THEN 400 ELSE 300,
     y_goal |-> IF stage = 0 THEN 0 ELSE IF stage = 1 THEN 300 ELSE -200,
     stage_index |-> stage]

ArmObsSet ==
    { ArmObsAt(0, 0, 0, 0, 1000, 0, 0),
      ArmObsAt(460000, 0, 0, 5000, 690, 10, 0),
      ArmObsAt(-502655, 100, -4480, 0, 400, 300, 1) }

ArmFlagsSet ==
    { None } \cup
    { Some([joint1_near_limit |-> a, joint2_near_limit |-> b,
            joint1_distance_to_limit |-> 0, joint2_distance_to_limit |-> 0,
            joints_too_fast |-> f, near_obstacle |-> FALSE,
            obstacle_distance |-> None]) : a, b, f \in BOOLEAN }

-----------------------------------------------------------------------------
(* A caller that builds a shared state and calls the bands and the Shield   *)
(* on it, as the unit tests do.                                             *)

Snapshot ==
    [tick |-> tick, t |-> t, obs |-> obs, action_proposed |-> action_proposed,
     action_final |-> action_final, semantics_advice |-> semantics_advice,
     reflex_flags |-> reflex_flags, brain_name |-> brain_name,
     shield_interventions |-> shield_interventions, events |-> events,
     ctrl |-> ctrl]

NoLoop == [next |-> 0, max_ticks |-> 0]

\* hist: the ticks on which each operation was called, the ticks whose
\* Shield call left action_final different from action_proposed, the
\* actions handed to env.step, in order, the tick and observation of the
\* latest Semantics call, and the tick, proposal, observation and flags of
\* the latest Shield call
NoHist ==
    [semantics |-> {}, control |-> {}, reflex |-> {}, shield |-> {}, env |-> {},
     differed |-> {}, applied |-> << >>, sem_input |-> None,
     shield_input |-> None]

\* forward_kinematics(0, 0) = (L1 + L2, 0), the one value computed exactly
FkKnown == { << << 0, 0 >>, << 1000, 0 >> >> }

InitCallsV0 ==
    /\ variant = "v0"
    /\ cfg \in V0Configs
    /\ tick = 42 /\ t = 42
    /\ obs \in V0ObsSet
    /\ action_proposed \in { None } \cup { Some(p) : p \in V0Proposals }
    /\ action_final \in { None, Some(10000000) }
    /\ semantics_advice \in V0AdviceSet
    /\ reflex_flags \in V0FlagsSet
    /\ brain_name = "" /\ shield_interventions = 0
    /\ events = << >>
    /\ ctrl = [gain_tenths |-> V0_GAIN_TENTHS]
    /\ env = [kind |-> "none"]

InitCallsArm ==
    /\ variant = "arm"
    /\ cfg \in ArmConfigs
    /\ tick = 42 /\ t = 42
    /\ obs \in ArmObsSet \cup { << >> }
    /\ action_proposed \in { None } \cup { Some(p) : p \in ArmTauPairs }
    /\ action_final \in { None, Some(<< 8, 8 >>) }
    /\ semantics_advice \in { None, Some(ArmSemanticsAdvice(ArmObsAt(0, 0, 0, 0, 1000, 0, 0))) }
    /\ reflex_flags \in ArmFlagsSet
    /\ brain_name = "unknown"
    /\ shield_interventions = 0
    /\ events = << >>
    /\ \E init \in BOOLEAN :
          ctrl = IF init THEN ArmResetEpisode(ArmControlNew("imperfect"))
                         ELSE ArmControlNew("imperfect")
    /\ env = [kind |-> "none"]

InitCalls ==
    /\ (InitCallsV0 \/ InitCallsArm)
    /\ pc = "caller" /\ loop = NoLoop /\ trace = << >>
    /\ last_op = "" /\ raised = "" /\ ret = None
    /\ pre = Snapshot
    /\ ncalls = 0
    /\ hist = NoHist
    /\ file = << >> /\ fk = FkKnown /\ prev = None

Called(op) ==
    /\ pc = "caller" /\ ncalls < MaxCalls
    /\ ncalls' = ncalls + 1
    /\ last_op' = op
    /\ pre' = Snapshot
    /\ UNCHANGED << variant, env, pc, loop, trace, hist, file, fk, prev >>

CallV0Semantics ==
    variant = "v0" /\ Called("semantics") /\ V0SemanticsStep /\ UNCHANGED cfg

CallV0Control ==
    variant = "v0" /\ Called("control") /\ V0ControlStep /\ UNCHANGED cfg

CallV0Reflex ==
    variant = "v0" /\ Called("reflex") /\ V0ReflexBandStep /\ UNCHANGED cfg

CallV0Shield ==
    variant = "v0" /\ Called("shield") /\ V0ShieldStep /\ UNCHANGED << cfg, events >>

CallArmSemantics ==
    variant = "arm" /\ Called("semantics") /\ ArmSemanticsStep /\ UNCHANGED cfg

CallArmControl ==
    /\ variant = "arm" /\ Called("control")
    /\ \E a \in ArmBrainStep(ctrl.brain_name, ctrl.brain_state) : ArmControlBandStep(a)
    /\ UNCHANGED cfg

CallArmReflex ==
    variant = "arm" /\ Called("reflex") /\ ArmReflexBandStep /\ UNCHANGED cfg

CallArmShield ==
    variant = "arm" /\ Called("shield") /\ ArmShieldStep /\ UNCHANGED cfg

\* SafetyShield(u_min, u_max): the caller replaces its shield by the new
\* instance when the constructor returns one
CallShieldNew ==
    /\ Called("construct")
    /\ \E b \in ShieldBoundPairs :
          LET r == IF variant = "v0" THEN V0ShieldInit(b[1], b[2])
                   ELSE ArmShieldInit(b[1], b[2], NEAR_LIMIT_SCALE)
          IN  /\ raised' = r.exc
              /\ ret' = IF r.exc = "" THEN Some(r.shield) ELSE None
              /\ cfg' = IF r.exc = "" THEN r.shield ELSE cfg
    /\ UNCHANGED << shared, events, ctrl >>

NextCalls ==
    \/ CallV0Semantics \/ CallV0Control \/ CallV0Reflex \/ CallV0Shield
    \/ CallArmSemantics \/ CallArmControl \/ CallArmReflex \/ CallArmShield
    \/ CallShieldNew

SpecCalls == InitCalls /\ [][NextCalls]_vars

-----------------------------------------------------------------------------
(* hti_v0_demo/env.py : ToyEnv                                              *)

V0_X0 == 100000000

V0_X_TARGET == 800000000

V0_SUCCESS_THRESHOLD == 20000000

V0_MAX_STEPS == 2000

V0_GLITCH_START == 50

V0_GLITCH_END == 70

V0_GLITCH_MAGNITUDE == 300000000

V0EnvObs(x, x_meas, x_target) ==
    [x |-> x, x_true |-> x, x_meas |-> x_meas, x_target |-> x_target]

V0EnvNew(glitches) ==
    [kind |-> "toy", x |-> 0, x_target |-> 0, step_count |-> 0,
     current_tick |-> 0, enable_glitches |-> glitches]

V0EnvReset(e) ==
    [env |-> [e EXCEPT !.x = V0_X0, !.x_target = V0_X_TARGET,
                       !.step_count = 0, !.current_tick = 0],
     obs |-> V0EnvObs(V0_X0, V0_X0, V0_X_TARGET)]

V0EnvStep(e, u) ==
    LET x      == Max(0, Min(V0_ONE, e.x + u))
        steps  == e.step_count + 1
        ctick  == e.current_tick + 1
        glitch == e.enable_glitches /\ V0_GLITCH_START <= ctick /\ ctick < V0_GLITCH_END
        x_meas == IF glitch THEN Max(0, Min(V0_ONE, x + V0_GLITCH_MAGNITUDE)) ELSE x
        dist   == Abs(x - e.x_target)
    IN  [env  |-> [e EXCEPT !.x = x, !.step_count = steps, !.current_tick = ctick],
         obs  |-> V0EnvObs(x, x_meas, e.x_target),
         done |-> dist < V0_SUCCESS_THRESHOLD \/ steps >= V0_MAX_STEPS,
         info |-> [success |-> dist < V0_SUCCESS_THRESHOLD, distance |-> dist,
                   step_count |-> steps]]

-----------------------------------------------------------------------------
(* hti_arm_demo/env.py : step_dynamics, ToyArmEnv                           *)
(* forward_kinematics is trigonometric: the end-effector point of a pose    *)
(* other than the reset pose is an input, drawn from EEPoints.              *)

ARM_MAX_STEPS == 2000

\* 1 / (DT * DAMPING_COEFF)
DAMP_DEN == 1000

LAST_STAGE == 2

Waypoint(stage) ==
    IF stage = 0 THEN << 700, 0 >> ELSE IF stage = 1 THEN << 400, 300 >>
    ELSE << 300, -200 >>

\* x / d rounded toward zero
Quot(x, d) == IF x >= 0 THEN x \div d ELSE -((-x) \div d)

\* mutant: the torque is integrated as handed in
StepDynamicsKeepsTorque(st, tau1, tau2) ==
    LET w1 == Max(-OMEGA_MAX, Min(OMEGA_MAX, st.omega1 + tau1 - Quot(st.omega1, DAMP_DEN)))
        w2 == Max(-OMEGA_MAX, Min(OMEGA_MAX, st.omega2 + tau2 - Quot(st.omega2, DAMP_DEN)))
    IN  [theta1 |-> Max(THETA_MIN, Min(THETA_MAX, st.theta1 + w1)),
         theta2 |-> Max(THETA_MIN, Min(THETA_MAX, st.theta2 + w2)),
         omega1 |-> w1, omega2 |-> w2]

StepDynamics(st, tau1, tau2) ==
    LET c1 == Max(-TAU_MAX, Min(TAU_MAX, tau1))
        c2 == Max(-TAU_MAX, Min(TAU_MAX, tau2))
        w1 == Max(-OMEGA_MAX, Min(OMEGA_MAX, st.omega1 + c1 - Quot(st.omega1, DAMP_DEN)))
        w2 == Max(-OMEGA_MAX, Min(OMEGA_MAX, st.omega2 + c2 - Quot(st.omega2, DAMP_DEN)))
    IN  [theta1 |-> Max(THETA_MIN, Min(THETA_MAX, st.theta1 + w1)),
         theta2 |-> Max(THETA_MIN, Min(THETA_MAX, st.theta2 + w2)),
         omega1 |-> w1, omega2 |-> w2]

ArmBuildObs(e) ==
    [theta1 |-> e.state.theta1, theta2 |-> e.state.theta2,
     omega1 |-> e.state.omega1, omega2 |-> e.state.omega2,
     x_ee |-> e.ee[1], y_ee |-> e.ee[2],
     x_goal |-> Waypoint(e.current_stage)[1],
     y_goal |-> Waypoint(e.current_stage)[2],
     stage_index |-> e.current_stage]

ArmEnvNew ==
    [kind |-> "arm", state |-> None, ee |-> << 0, 0 >>, current_stage |-> 0,
     step_count |-> 0]

ArmEnvReset(e) ==
    LET e1 == [e EXCEPT !.state = [theta1 |-> 0, theta2 |-> 0, omega1 |-> 0, omega2 |-> 0],
                        !.ee = << 1000, 0 >>,     \* L1 + L2 along x
                        !.current_stage = 0, !.step_count = 0]
    IN  [env |-> e1, obs |-> ArmBuildObs(e1)]

\* mutant: the step limit is tested before the waypoint
ArmEnvStepTimeoutFirst(e, tau1, tau2, ee) ==
    LET st      == StepDynamics(e.state, tau1, tau2)
        steps   == e.step_count + 1
        goal    == Waypoint(e.current_stage)
        dx      == goal[1] - ee[1]
        dy      == goal[2] - ee[2]
        reached == dx * dx + dy * dy <= WORKSPACE_TOL * WORKSPACE_TOL
        e1      == [e EXCEPT !.state = st, !.ee = ee, !.step_count = steps]
    IN  IF steps >= ARM_MAX_STEPS
        THEN [env |-> e1, obs |-> ArmBuildObs(e1), done |-> TRUE,
              info |-> [stage_advanced |-> FALSE, reason |-> "max_steps"]]
        ELSE IF reached /\ e.current_stage < LAST_STAGE
        THEN LET e2 == [e1 EXCEPT !.current_stage = e.current_stage + 1] IN
             [env |-> e2, obs |-> ArmBuildObs(e2), done |-> FALSE,
              info |-> [stage_advanced |-> TRUE, reason |-> ""]]
        ELSE IF reached
        THEN [env |-> e1, obs |-> ArmBuildObs(e1), done |-> TRUE,
              info |-> [stage_advanced |-> FALSE, reason |-> "all_waypoints_reached"]]
        ELSE [env |-> e1, obs |-> ArmBuildObs(e1), done |-> FALSE,
              info |-> [stage_advanced |-> FALSE, reason |-> ""]]

\* ee: forward_kinematics of the new pose
ArmEnvStep(e, tau1, tau2, ee) ==
    LET st      == StepDynamics(e.state, tau1, tau2)
        steps   == e.step_count + 1
        goal    == Waypoint(e.current_stage)
        dx      == goal[1] - ee[1]
        dy      == goal[2] - ee[2]
        reached == dx * dx + dy * dy <= WORKSPACE_TOL * WORKSPACE_TOL
        e1      == [e EXCEPT !.state = st, !.ee = ee, !.step_count = steps]
    IN  IF reached /\ e.current_stage < LAST_STAGE
        THEN LET e2 == [e1 EXCEPT !.current_stage = e.current_stage + 1] IN
             [env |-> e2, obs |-> ArmBuildObs(e2), done |-> steps >= ARM_MAX_STEPS,
              info |-> [stage_advanced |-> TRUE,
                        reason |-> IF steps >= ARM_MAX_STEPS THEN "max_steps" ELSE ""]]
        ELSE IF reached
        THEN [env |-> e1, obs |-> ArmBuildObs(e1), done |-> TRUE,
              info |-> [stage_advanced |-> FALSE, reason |-> "all_waypoints_reached"]]
        ELSE [env |-> e1, obs |-> ArmBuildObs(e1), done |-> steps >= ARM_MAX_STEPS,
              info |-> [stage_advanced |-> FALSE,
                        reason |-> IF steps >= ARM_MAX_STEPS THEN "max_steps" ELSE ""]]

-----------------------------------------------------------------------------
(* scheduler.py : run_episode, both packages.  pc is the statement about to *)
(* run; an exception leaves the function (pc = "crashed").                  *)

MaxTicks == 11

\* run_episode calls in a row
MaxEpisodes == 2

SEMANTICS_PERIOD == 10

CONTROL_PERIOD == 2

\* t = tick * DT, in units of 0.01 s
DT_UNITS == 1

\* json.dumps(asdict(event)): the line carries every field of the event
V0JsonLine(e) ==
    [timestamp |-> e.timestamp, tick |-> e.tick, band |-> e.band,
     obs_before |-> e.obs_before, action_proposed |-> e.action_proposed,
     action_final |-> e.action_final, reason |-> e.reason, metadata |-> e.metadata]

\* json.dumps(event_dict): the two actions are written as lists
ArmJsonLine(e) ==
    [timestamp |-> e.timestamp, tick |-> e.tick, band |-> e.band,
     obs_before |-> e.obs_before,
     action_proposed |-> [list |-> e.action_proposed],
     action_final |-> [list |-> e.action_final],
     reason |-> e.reason, metadata |-> e.metadata]

\* forward_kinematics of the pose after a step: the end effector is still
\* away from the current waypoint, or on it
EEPoints(e) == { << 1000, 0 >>, Waypoint(e.current_stage) }

\* the arm ControlBand handed to run_episode: new, or used by an earlier episode
ArmControlBands ==
    { ArmControlNew(n) : n \in { "alternating", "saturating", "steady" } }
    \cup { [brain_name |-> "alternating", brain_state |-> << 1 >>, initialized |-> TRUE] }

InitEpisode ==
    /\ variant \in { "v0", "arm" }
    /\ IF variant = "v0"
       THEN /\ cfg = [u_min |-> -V0_U_MAX_DEFAULT, u_max |-> V0_U_MAX_DEFAULT]
            /\ \E g \in BOOLEAN : env = V0EnvNew(g)
            /\ ctrl = [gain_tenths |-> V0_GAIN_TENTHS]
            /\ semantics_advice = V0DefaultAdvice
            /\ reflex_flags = V0DefaultReflexFlags
            /\ brain_name = ""
       ELSE /\ cfg \in ArmConfigs
            /\ env = ArmEnvNew
            /\ ctrl \in ArmControlBands
            /\ semantics_advice = None
            /\ reflex_flags = None
            /\ brain_name = "unknown"
    /\ tick = 0 /\ t = 0 /\ obs = << >>
    /\ action_proposed = None /\ action_final = None
    /\ shield_interventions = 0
    /\ events = << >>
    /\ pc = "start"
    /\ \E m \in { 0, 2, MaxTicks } :
          loop = [max_ticks |-> m, next |-> 0, tick |-> -1, done |-> FALSE,
                  reason |-> "", new_obs |-> << >>, safe_u |-> None,
                  u_applied |-> None, all_waypoints_reached |-> FALSE,
                  result |-> "max_steps"]
    /\ trace = << >>
    /\ last_op = "" /\ raised = "" /\ ret = None
    /\ pre = Snapshot
    /\ ncalls = 0
    /\ hist = NoHist
    /\ file = << >> /\ fk = FkKnown /\ prev = None

\* SharedState() / ArmSharedState(obs=obs, tick=0, t=0.0) without its obs
FreshState ==
    /\ tick' = 0 /\ t' = 0
    /\ action_proposed' = None /\ action_final' = None
    /\ semantics_advice' = IF variant = "v0" THEN V0DefaultAdvice ELSE None
    /\ reflex_flags' = IF variant = "v0" THEN V0DefaultReflexFlags ELSE None
    /\ brain_name' = IF variant = "v0" THEN "" ELSE "unknown"
    /\ shield_interventions' = 0

\* mutant: the intervention counter of the call before is carried over
EpResetKeepsCounter ==
    /\ pc = "start"
    /\ LET r == IF variant = "v0" THEN V0EnvReset(env) ELSE ArmEnvReset(env) IN
       /\ env' = r.env
       /\ obs' = r.obs
    /\ tick' = 0 /\ t' = 0
    /\ action_proposed' = None /\ action_final' = None
    /\ semantics_advice' = IF variant = "v0" THEN V0DefaultAdvice ELSE None
    /\ reflex_flags' = IF variant = "v0" THEN V0DefaultReflexFlags ELSE None
    /\ brain_name' = IF variant = "v0" THEN "" ELSE "unknown"
    /\ ctrl' = IF variant = "v0" THEN ctrl ELSE ArmResetEpisode(ctrl)
    /\ events' = << >>
    /\ file' = IF variant = "v0" THEN << >> ELSE file
    /\ pc' = "loop"
    /\ last_op' = "reset"
    /\ UNCHANGED << variant, cfg, shield_interventions, loop, trace, raised, ret,
                    pre, ncalls, hist, fk, prev >>

\* env.reset(), the fresh shared state, control.reset_episode(), and the
\* logger: v0 makes a new EventLogger, which removes the file at its path;
\* arm clears the buffer of the logger it was handed
EpReset ==
    /\ pc = "start"
    /\ LET r == IF variant = "v0" THEN V0EnvReset(env) ELSE ArmEnvReset(env) IN
       /\ env' = r.env
       /\ obs' = r.obs
    /\ FreshState
    /\ ctrl' = IF variant = "v0" THEN ctrl ELSE ArmResetEpisode(ctrl)
    /\ events' = << >>
    /\ file' = IF variant = "v0" THEN << >> ELSE file
    /\ pc' = "loop"
    /\ last_op' = "reset"
    /\ UNCHANGED << variant, cfg, loop, trace, raised, ret, pre, ncalls,
                    hist, fk, prev >>

\* mutant: Control runs on every tick
AfterClockControlAlways(tk) ==
    IF tk % SEMANTICS_PERIOD = 0 THEN "semantics" ELSE "control"

\* mutant: Reflex is decimated like Control
AfterClockSkipsReflex(tk) ==
    IF tk % SEMANTICS_PERIOD = 0 THEN "semantics"
    ELSE IF tk % CONTROL_PERIOD = 0 THEN "control" ELSE "shield"

\* mutant: Semantics never runs
AfterClockSkipsSemantics(tk) ==
    IF tk % CONTROL_PERIOD = 0 THEN "control" ELSE "reflex"

AfterClock(tk) ==
    IF tk % SEMANTICS_PERIOD = 0 THEN "semantics"
    ELSE IF tk % CONTROL_PERIOD = 0 THEN "control" ELSE "reflex"

\* mutant: a tick on which Semantics ran skips Control
AfterSemanticsSkipsControl(tk) == "reflex"

AfterSemantics(tk) == IF tk % CONTROL_PERIOD = 0 THEN "control" ELSE "reflex"

\* mutant: the tick is advanced but the time is not
EpClockStaleTime ==
    /\ pc = "loop" /\ loop.next < loop.max_ticks
    /\ loop' = [loop EXCEPT !.tick = loop.next]
    /\ tick' = loop.next
    /\ trace' = << "clock" >>
    /\ pc' = AfterClock(loop.next)
    /\ last_op' = "clock"
    /\ UNCHANGED << variant, cfg, t, obs, action_proposed, action_final,
                    semantics_advice, reflex_flags, brain_name,
                    shield_interventions, events, ctrl, env, raised, ret, pre,
                    ncalls, hist, file, fk, prev >>

\* for tick in range(max_ticks): state.tick = tick; state.t = tick * DT
EpClock ==
    /\ pc = "loop" /\ loop.next < loop.max_ticks
    /\ loop' = [loop EXCEPT !.tick = loop.next]
    /\ tick' = loop.next
    /\ t' = loop.next * DT_UNITS
    /\ trace' = << "clock" >>
    /\ pc' = AfterClock(loop.next)
    /\ last_op' = "clock"
    /\ UNCHANGED << variant, cfg, obs, action_proposed, action_final,
                    semantics_advice, reflex_flags, brain_name,
                    shield_interventions, events, ctrl, env, raised, ret, pre,
                    ncalls, hist, file, fk, prev >>

\* range(max_ticks) is exhausted
EpExhausted ==
    /\ pc = "loop" /\ loop.next >= loop.max_ticks
    /\ pc' = "finish"
    /\ UNCHANGED << variant, cfg, tick, t, obs, action_proposed, action_final,
                    semantics_advice, reflex_flags, brain_name,
                    shield_interventions, events, ctrl, env, loop, trace,
                    last_op, raised, ret, pre, ncalls, hist, file, fk, prev >>

\* bookkeeping of a band or Shield call made by the loop body
Ran(op, next_pc) ==
    /\ pc' = IF raised' = "" THEN next_pc ELSE "crashed"
    /\ trace' = Append(trace, op)
    /\ last_op' = op
    /\ pre' = Snapshot
    /\ hist' = [hist EXCEPT ![op] = @ \cup { loop.tick },
                            !.differed = IF op = "shield" /\ raised' = ""
                                            /\ action_final' # action_proposed'
                                         THEN @ \cup { loop.tick } ELSE @,
                            !.sem_input = IF op = "semantics"
                                          THEN Some([tick |-> loop.tick, obs |-> obs])
                                          ELSE @,
                            !.shield_input = IF op = "shield"
                                             THEN Some([tick |-> loop.tick,
                                                        proposed |-> action_proposed,
                                                        obs |-> obs,
                                                        flags |-> reflex_flags])
                                             ELSE @]
    /\ UNCHANGED << variant, cfg, env, ncalls, fk, prev >>

EpSemantics ==
    /\ pc = "semantics"
    /\ IF variant = "v0" THEN V0SemanticsStep ELSE ArmSemanticsStep
    /\ Ran("semantics", AfterSemantics(loop.tick))
    /\ UNCHANGED << loop, file >>

EpControl ==
    /\ pc = "control"
    /\ IF variant = "v0" THEN V0ControlStep
       ELSE \E a \in ArmBrainStep(ctrl.brain_name, ctrl.brain_state) :
               ArmControlBandStep(a)
    /\ Ran("control", "reflex")
    /\ UNCHANGED << loop, file >>

EpReflex ==
    /\ pc = "reflex"
    /\ IF variant = "v0" THEN V0ReflexBandStep ELSE ArmReflexBandStep
    /\ Ran("reflex", "shield")
    /\ UNCHANGED << loop, file >>

\* v0: safe_u, event = shield.apply(state); if event is not None: logger.log(event),
\*     which appends the event to the buffer and its line to the file
\* arm: shield.apply(state, event_logger.events)
EpShield ==
    /\ pc = "shield"
    /\ IF variant = "v0"
       THEN /\ V0ShieldStep
            /\ LET logged == raised' = "" /\ ~IsNone(Val(ret').event) IN
               /\ events' = IF logged THEN Append(events, Val(Val(ret').event))
                            ELSE events
               /\ file' = IF logged THEN Append(file, V0JsonLine(Val(Val(ret').event)))
                          ELSE file
            /\ loop' = IF raised' = "" THEN [loop EXCEPT !.safe_u = Some(Val(ret').safe_u)]
                       ELSE loop
       ELSE ArmShieldStep /\ UNCHANGED << loop, file >>
    /\ Ran("shield", "env")

\* the action handed to env.step: v0 the returned safe_u,
\* arm "state.action_final or (0.0, 0.0)" (a 2-tuple is never falsy)
StepAction ==
    IF variant = "v0" THEN Val(loop.safe_u)
    ELSE IF IsNone(action_final) THEN << 0, 0 >> ELSE Val(action_final)

\* forward_kinematics is a function of the pose: a pose it has been
\* evaluated on before gives the point it gave then
FkPoints(e, u) ==
    LET st    == StepDynamics(e.state, u[1], u[2])
        pose  == << st.theta1, st.theta2 >>
        known == { p[2] : p \in { q \in fk : q[1] = pose } }
    IN  [pose |-> pose, points |-> IF known = {} THEN EEPoints(e) ELSE known]

EpEnvStep ==
    /\ pc = "env"
    /\ \E ee \in IF variant = "v0" THEN { << 0, 0 >> } ELSE FkPoints(env, StepAction).points :
          LET u == StepAction
              r == IF variant = "v0" THEN V0EnvStep(env, u)
                   ELSE ArmEnvStep(env, u[1], u[2], ee)
          IN  /\ env' = r.env
              /\ fk' = IF variant = "v0" THEN fk
                       ELSE fk \cup { << FkPoints(env, u).pose, ee >> }
              /\ loop' = [loop EXCEPT !.new_obs = r.obs, !.done = r.done,
                                      !.reason = IF variant = "v0" THEN ""
                                                 ELSE r.info.reason,
                                      !.u_applied = Some(u)]
    /\ pc' = "obs"
    /\ trace' = Append(trace, "env")
    /\ last_op' = "env"
    /\ pre' = Snapshot
    /\ hist' = [hist EXCEPT !.env = @ \cup { loop.tick },
                            !.applied = Append(@, StepAction)]
    /\ UNCHANGED << variant, cfg, tick, t, obs, action_proposed, action_final,
                    semantics_advice, reflex_flags, brain_name,
                    shield_interventions, events, ctrl, raised, ret, ncalls,
                    file, prev >>

\* mutant: the done signal is ignored and the loop goes on
EpObsUpdateIgnoresDone ==
    /\ pc = "obs"
    /\ obs' = loop.new_obs
    /\ trace' = Append(trace, "obs")
    /\ last_op' = "obs"
    /\ pc' = "loop"
    /\ loop' = [loop EXCEPT !.next = loop.tick + 1]
    /\ UNCHANGED << variant, cfg, tick, t, action_proposed, action_final,
                    semantics_advice, reflex_flags, brain_name,
                    shield_interventions, events, ctrl, env, raised, ret, pre,
                    ncalls, hist, file, fk, prev >>

\* mutant: a completed episode is flagged but its reason is not recorded
EpObsUpdateForgetsReason ==
    /\ pc = "obs"
    /\ obs' = loop.new_obs
    /\ trace' = Append(trace, "obs")
    /\ last_op' = "obs"
    /\ IF loop.done
       THEN /\ pc' = "finish"
            /\ loop' = IF variant = "arm" /\ loop.reason = "all_waypoints_reached"
                       THEN [loop EXCEPT !.all_waypoints_reached = TRUE]
                       ELSE loop
       ELSE /\ pc' = "loop"
            /\ loop' = [loop EXCEPT !.next = loop.tick + 1]
    /\ UNCHANGED << variant, cfg, tick, t, action_proposed, action_final,
                    semantics_advice, reflex_flags, brain_name,
                    shield_interventions, events, ctrl, env, raised, ret, pre,
                    ncalls, hist, file, fk, prev >>

\* state.obs = obs; if done: ... break
EpObsUpdate ==
    /\ pc = "obs"
    /\ obs' = loop.new_obs
    /\ trace' = Append(trace, "obs")
    /\ last_op' = "obs"
    /\ IF loop.done
       THEN /\ pc' = "finish"
            /\ loop' = IF variant = "arm" /\ loop.reason = "all_waypoints_reached"
                       THEN [loop EXCEPT !.all_waypoints_reached = TRUE,
                                         !.result = "all_waypoints_reached"]
                       ELSE loop
       ELSE /\ pc' = "loop"
            /\ loop' = [loop EXCEPT !.next = loop.tick + 1]
    /\ UNCHANGED << variant, cfg, tick, t, action_proposed, action_final,
                    semantics_advice, reflex_flags, brain_name,
                    shield_interventions, events, ctrl, env, raised, ret, pre,
                    ncalls, hist, file, fk, prev >>

\* EventLogger.flush (arm): nothing is written when the buffer is empty
ArmFlush(lines, buffer) ==
    IF buffer = << >> THEN lines
    ELSE [i \in 1..Len(buffer) |-> ArmJsonLine(buffer[i])]

\* after the loop: arm event_logger.flush(), v0 logger.dump() (console only);
\* then the return statement: v0 reads state.tick and info, arm reads tick;
\* with max_ticks = 0 the loop never bound info / tick
EpFinish ==
    /\ pc = "finish"
    /\ file' = IF variant = "v0" THEN file ELSE ArmFlush(file, events)
    /\ IF loop.tick < 0
       THEN /\ raised' = "UnboundLocalError"
            /\ ret' = None
            /\ pc' = "crashed"
       ELSE /\ raised' = ""
            /\ ret' = Some([ticks |-> IF variant = "v0" THEN tick + 1 ELSE loop.tick + 1,
                            interventions |-> IF variant = "v0" THEN Len(events)
                                              ELSE shield_interventions,
                            all_waypoints_reached |-> loop.all_waypoints_reached,
                            reason |-> loop.result])
            /\ pc' = "returned"
    /\ last_op' = "return"
    /\ UNCHANGED << variant, cfg, tick, t, obs, action_proposed, action_final,
                    semantics_advice, reflex_flags, brain_name,
                    shield_interventions, events, ctrl, env, loop, trace, pre,
                    ncalls, hist, fk, prev >>

NextEpisode ==
    \/ EpReset \/ EpClock \/ EpExhausted
    \/ EpSemantics \/ EpControl \/ EpReflex \/ EpShield
    \/ EpEnvStep \/ EpObsUpdate \/ EpFinish

SpecEpisode == InitEpisode /\ [][NextEpisode]_vars

\* run_episode runs on one thread that is never suspended for good: while a
\* statement is left to run, one runs
SpecEpisodeFair == SpecEpisode /\ WF_vars(NextEpisode)

\* what a finished run_episode call was given and what it produced
Outcome ==
    [max_ticks |-> loop.max_ticks, brain |-> IF variant = "v0" THEN "" ELSE ctrl.brain_name,
     cfg |-> cfg, applied |-> hist.applied, events |-> events,
     raised |-> raised, ret |-> ret]

\* the arguments of the next run_episode call: those of the call before
\* (the same ControlBand object, v0 always makes its own band), or a new
\* ControlBand with the steady policy for a short episode
NextRuns ==
    { [ctrl |-> ctrl, max_ticks |-> loop.max_ticks] } \cup
    ( IF variant = "v0" THEN {}
      ELSE { [ctrl |-> ArmControlNew("steady"), max_ticks |-> 2] } )

\* the caller calls run_episode again after it returned or raised, with the
\* same environment, shield and logger
EpAgain ==
    /\ pc \in { "returned", "crashed" } /\ ncalls + 1 < MaxEpisodes
    /\ ncalls' = ncalls + 1
    /\ prev' = Some(Outcome)
    /\ \E r \in NextRuns :
          /\ ctrl' = r.ctrl
          /\ loop' = [loop EXCEPT !.max_ticks = r.max_ticks,
                            !.next = 0, !.tick = -1, !.done = FALSE, !.reason = "",
                            !.new_obs = << >>, !.safe_u = None, !.u_applied = None,
                            !.all_waypoints_reached = FALSE, !.result = "max_steps"]
    /\ pc' = "start"
    /\ trace' = << >> /\ hist' = NoHist
    /\ last_op' = "again" /\ raised' = "" /\ ret' = None
    /\ UNCHANGED << variant, cfg, shared, events, env, pre, file, fk >>

NextSessions == NextEpisode \/ EpAgain

\* run_episode called repeatedly on the same logger path
SpecSessions == InitEpisode /\ [][NextSessions]_vars

-----------------------------------------------------------------------------
(* env.py, both packages: the environment driven directly, with any action  *)
(* value and without the bands or the Shield in front of it.                *)

\* reset and step calls in a row
MaxEnvCalls == 4

\* delta-positions handed to ToyEnv.step, inside and outside the Shield bounds
V0EnvActions == { -V0_ONE, -V0_U_MAX_DEFAULT, 0, 7 * V0_U_MAX_DEFAULT, V0_ONE }

\* torque pairs handed to ToyArmEnv.step, inside and outside [-TAU_MAX, TAU_MAX]
ArmEnvActions == { << 0, 0 >>, << 40, -200 >>, << 200, 200 >> }

InitEnv ==
    /\ variant \in { "v0", "arm" }
    /\ IF variant = "v0"
       THEN /\ cfg = [u_min |-> -V0_U_MAX_DEFAULT, u_max |-> V0_U_MAX_DEFAULT]
            /\ \E g \in BOOLEAN : env = V0EnvNew(g)
            /\ ctrl = [gain_tenths |-> V0_GAIN_TENTHS]
            /\ semantics_advice = V0DefaultAdvice
            /\ reflex_flags = V0DefaultReflexFlags
            /\ brain_name = ""
       ELSE /\ cfg = CHOOSE c \in ArmConfigs : TRUE
            /\ env = ArmEnvNew
            /\ ctrl = ArmControlNew("steady")
            /\ semantics_advice = None
            /\ reflex_flags = None
            /\ brain_name = "unknown"
    /\ tick = 0 /\ t = 0 /\ obs = << >>
    /\ action_proposed = None /\ action_final = None
    /\ shield_interventions = 0
    /\ events = << >>
    /\ pc = "env_user"
    /\ loop = NoLoop
    /\ trace = << >>
    /\ last_op = "" /\ raised = "" /\ ret = None
    /\ pre = Snapshot
    /\ ncalls = 0
    /\ hist = NoHist
    /\ file = << >> /\ fk = FkKnown /\ prev = None

\* steps in a row with one torque held
ArmHoldSteps == 160

\* a run of held-torque steps, once begun, goes on to ArmHoldSteps before
\* anything else is called
Holding == variant = "arm" /\ last_op = "env_hold" /\ env.step_count < ArmHoldSteps

\* what an environment call leaves alone
EnvUserFrame ==
    UNCHANGED << variant, cfg, tick, t, obs, action_proposed, action_final,
                 semantics_advice, reflex_flags, brain_name, shield_interventions,
                 events, ctrl, pc, loop, pre, file, prev >>

\* env.reset(); trace restarts the list of waypoints reached since the reset
EnvReset ==
    /\ pc = "env_user" /\ ncalls < MaxEnvCalls /\ ~Holding
    /\ LET r == IF variant = "v0" THEN V0EnvReset(env) ELSE ArmEnvReset(env) IN
       /\ env' = r.env
       /\ ret' = Some([obs |-> r.obs, done |-> FALSE, reason |-> ""])
    /\ trace' = << >>
    /\ hist' = NoHist
    /\ last_op' = "env_reset" /\ raised' = ""
    /\ ncalls' = ncalls + 1
    /\ UNCHANGED fk
    /\ EnvUserFrame

\* ToyEnv.step(u)
EnvStepV0 ==
    /\ pc = "env_user" /\ ncalls < MaxEnvCalls
    /\ variant = "v0"
    /\ \E u \in V0EnvActions :
          LET r == V0EnvStep(env, u) IN
          /\ env' = r.env
          /\ ret' = Some([obs |-> r.obs, done |-> r.done, reason |-> ""])
          /\ hist' = [hist EXCEPT !.applied = Append(@, u)]
    /\ last_op' = "env_step" /\ raised' = ""
    /\ ncalls' = ncalls + 1
    /\ UNCHANGED << trace, fk >>
    /\ EnvUserFrame

\* ToyArmEnv.step(tau1, tau2); the assert on self.state fails before reset()
EnvStepArm ==
    /\ pc = "env_user" /\ ncalls < MaxEnvCalls /\ ~Holding
    /\ variant = "arm"
    /\ IF env.state = None
       THEN /\ raised' = "AssertionError" /\ ret' = None
            /\ UNCHANGED << env, fk, trace, hist >>
       ELSE \E u \in ArmEnvActions : \E ee \in FkPoints(env, u).points :
               LET r == ArmEnvStep(env, u[1], u[2], ee) IN
               /\ env' = r.env
               /\ fk' = fk \cup { << FkPoints(env, u).pose, ee >> }
               /\ ret' = Some([obs |-> r.obs, done |-> r.done, reason |-> r.info.reason])
               /\ trace' = IF r.info.stage_advanced
                              \/ r.info.reason = "all_waypoints_reached"
                           THEN Append(trace, env.current_stage) ELSE trace
               /\ hist' = [hist EXCEPT !.applied = Append(@, u)]
               /\ raised' = ""
    /\ last_op' = "env_step"
    /\ ncalls' = ncalls + 1
    /\ EnvUserFrame

\* step(0.0, 0.0) on an arm at rest away from its waypoint changes nothing
\* but the step counter
ArmEnvIdles(e) ==
    LET r == ArmEnvStep(e, 0, 0, e.ee) IN
    /\ r.env = [e EXCEPT !.step_count = @ + 1]
    /\ ~r.info.stage_advanced

\* k such calls in a row
ArmEnvIdle(e, k) == [e EXCEPT !.step_count = @ + k]

\* the arm left at rest with zero torque until three steps before MAX_STEPS
EnvRest ==
    /\ pc = "env_user" /\ ~Holding
    /\ variant = "arm" /\ env.state # None
    /\ env.step_count < ARM_MAX_STEPS - 3
    /\ ArmEnvIdles(env)
    /\ env' = ArmEnvIdle(env, ARM_MAX_STEPS - 3 - env.step_count)
    /\ last_op' = "env_rest"
    /\ UNCHANGED << fk, trace, hist, raised, ret, ncalls >>
    /\ EnvUserFrame

\* step(tau1, tau2) with the torque of the step before, from the reset pose
\* on, the end-effector passing no waypoint; hist.applied keeps the torque
\* once
EnvHold ==
    /\ pc = "env_user"
    /\ variant = "arm" /\ env.state # None /\ env.step_count < ArmHoldSteps
    /\ \E u \in ArmEnvActions \ { << 0, 0 >> } :
          /\ env.step_count = 0 \/ (last_op = "env_hold" /\ hist.applied = << u >>)
          /\ \E ee \in FkPoints(env, u).points :
                LET r == ArmEnvStep(env, u[1], u[2], ee) IN
                /\ ~r.info.stage_advanced /\ r.info.reason = ""
                /\ env' = r.env
                /\ fk' = fk \cup { << FkPoints(env, u).pose, ee >> }
                /\ ret' = Some([obs |-> r.obs, done |-> r.done, reason |-> r.info.reason])
                /\ hist' = [hist EXCEPT !.applied = << u >>]
    /\ last_op' = "env_hold" /\ raised' = ""
    /\ UNCHANGED << trace, ncalls >>
    /\ EnvUserFrame

NextEnv == EnvReset \/ EnvStepV0 \/ EnvStepArm \/ EnvRest \/ EnvHold

SpecEnv == InitEnv /\ [][NextEnv]_vars

\* the bands and the Shield used either way: called directly, or by run_episode
InitAll == InitCalls \/ InitEpisode

NextAll == NextCalls \/ NextEpisode

SpecAll == InitAll /\ [][NextAll]_vars

-----------------------------------------------------------------------------
(* Claims about single calls (SpecCalls).  pre is the shared state the call *)
(* was made on.                                                             *)

Clamp(v, lo, hi) == Max(lo, Min(hi, v))

\* the components of an action of the current variant
Components(a) == IF variant = "v0" THEN { a } ELSE { a[1], a[2] }

\* the proposal a call acted on, absent taken as the neutral action
ProposedOf(s) ==
    IF IsNone(s.action_proposed)
    THEN (IF variant = "v0" THEN 0 ELSE << 0, 0 >>)
    ELSE Val(s.action_proposed)

MismatchFlagged(s) ==
    /\ variant = "v0"
    /\ HasAttr(s.reflex_flags, "sensor_mismatch")
    /\ s.reflex_flags.sensor_mismatch

\* the flags say that there is no sensor mismatch
MismatchClear(s) ==
    variant = "v0" =>
        (HasAttr(s.reflex_flags, "sensor_mismatch") /\ ~s.reflex_flags.sensor_mismatch)

HazardFlagged(s) ==
    IF variant = "v0"
    THEN s.reflex_flags.near_boundary \/ s.reflex_flags.too_fast
    ELSE /\ ~IsNone(s.reflex_flags)
         /\ \/ Val(s.reflex_flags).joint1_near_limit
            \/ Val(s.reflex_flags).joint2_near_limit
            \/ Val(s.reflex_flags).joints_too_fast

\* the Shield call emitted an Event Pack (v0 returns it, arm appends it)
EventEmitted ==
    IF variant = "v0"
    THEN ~IsNone(ret) /\ ~IsNone(Val(ret).event)
    ELSE Len(events) = Len(pre.events) + 1

\* C1: after every Shield.apply call, for every proposal (absent included),
\* every flag combination and every configuration with u_min <= u_max, the
\* call has completed and every component of action_final, and of the action
\* it returned, lies within [u_min, u_max].
C1_FinalAlwaysInBounds ==
    last_op = "shield" =>
        /\ raised = ""
        /\ ~IsNone(action_final)
        /\ \A c \in Components(Val(action_final)) : cfg.u_min <= c /\ c <= cfg.u_max
        /\ variant = "v0" =>
              /\ ~IsNone(ret)
              /\ cfg.u_min <= Val(ret).safe_u /\ Val(ret).safe_u <= cfg.u_max

C3_MismatchAlwaysStops ==
    (last_op = "shield" /\ MismatchFlagged(pre)) =>
        /\ raised = ""
        /\ action_final = Some(0)
        /\ EventEmitted
        /\ Val(Val(ret).event).reason = "stop_sensor_mismatch"

\* C4: outside the sensor-mismatch override a Shield.apply call produces an
\* Event Pack iff the action_final it wrote differs from the proposal by more
\* than the epsilon; an in-bounds proposal with no hazard flag is passed
\* through unchanged and produces no event.
C4_EventIffDeviation ==
    (last_op = "shield" /\ ~MismatchFlagged(pre)) =>
        LET p == ProposedOf(pre) IN
        /\ raised = ""
        /\ ~IsNone(action_final)
        /\ EventEmitted <=>
              IF variant = "v0" THEN Abs(Val(action_final) - p) > V0_EPS
              ELSE \E i \in 1..2 : Val(action_final)[i] # p[i]
        /\ ( /\ ~HazardFlagged(pre)
             /\ \A c \in Components(p) : cfg.u_min <= c /\ c <= cfg.u_max )
           => (Val(action_final) = p /\ ~EventEmitted)

\* C9: Semantics.step changes only semantics_advice.
C9_SemanticsWritesOnlyAdvice ==
    last_op = "semantics" =>
        /\ action_proposed = pre.action_proposed
        /\ action_final = pre.action_final
        /\ reflex_flags = pre.reflex_flags
        /\ obs = pre.obs
        /\ tick = pre.tick /\ t = pre.t
        /\ brain_name = pre.brain_name
        /\ shield_interventions = pre.shield_interventions

C9_Witness ==
    /\ last_op = "semantics" /\ raised = ""
    /\ semantics_advice # pre.semantics_advice
    /\ ~IsNone(action_proposed) /\ ~IsNone(action_final)

\* C10: Control.step writes action_proposed (and brain_name in the arm
\* variant) and nothing else in the shared state.
C10_ControlWritesOnlyProposal ==
    last_op = "control" =>
        /\ action_final = pre.action_final
        /\ reflex_flags = pre.reflex_flags
        /\ semantics_advice = pre.semantics_advice
        /\ obs = pre.obs
        /\ tick = pre.tick /\ t = pre.t
        /\ shield_interventions = pre.shield_interventions
        /\ variant = "v0" => brain_name = pre.brain_name

C10_Witness ==
    /\ last_op = "control" /\ raised = "" /\ variant = "arm"
    /\ action_proposed # pre.action_proposed
    /\ brain_name # pre.brain_name
    /\ ~IsNone(action_final)

-----------------------------------------------------------------------------
(* Claims about run_episode (SpecEpisode).  trace is the sequence of        *)
(* operations of the tick under way, hist the ticks each operation was      *)
(* called on.                                                               *)

\* a tick was entered and the loop body has left it (normally or by raising)
TickOver == pc \in { "loop", "finish", "returned", "crashed" } /\ loop.tick >= 0

IsPrefix(a, b) == Len(a) <= Len(b) /\ \A i \in 1..Len(a) : a[i] = b[i]

ExpectedOrder(tk) ==
    << "clock" >> \o (IF tk % 10 = 0 THEN << "semantics" >> ELSE << >>)
                 \o (IF tk % 2 = 0 THEN << "control" >> ELSE << >>)
                 \o << "reflex", "shield", "env", "obs" >>

EventTicks == { events[i].tick : i \in 1..Len(events) }

\* C5: over a run_episode execution the event log holds exactly one Event
\* Pack for every tick whose Shield call left action_final different from
\* action_proposed and none for any other tick: never two for one tick, and
\* none for a tick on which the Shield did not run.
C5_OneEventPerDifferingTick ==
    /\ EventTicks = hist.differed
    /\ \A i, j \in 1..Len(events) : i < j => events[i].tick < events[j].tick
    /\ EventTicks \subseteq hist.shield

C5_Witness ==
    /\ pc = "returned" /\ Len(events) >= 2
    /\ hist.shield \ hist.differed # {}

\* C6: in every tick of run_episode only the Shield writes action_final, it
\* writes it in that tick after Reflex and before the environment is stepped,
\* and Environment.step receives exactly that action_final.
C6_ShieldCommitsEveryTick ==
    /\ [][action_final' # action_final => pc = "shield"]_vars
    /\ [](pc = "obs" =>
            /\ Len(trace) >= 3
            /\ SubSeq(trace, Len(trace) - 2, Len(trace)) = << "reflex", "shield", "env" >>
            /\ loop.u_applied = action_final)
    /\ [](TickOver => (loop.tick \in hist.shield /\ loop.tick \in hist.env))

\* C7: within every tick of run_episode the operations occur in the order
\* clock, Semantics (if due), Control (if due), Reflex, Shield,
\* Environment.step, observation replacement; no band runs after the Shield;
\* and a band sees what was written earlier in the same tick (Control the
\* advice of this tick's Semantics, the Shield the flags of this tick's
\* Reflex).
C7_TickOrder ==
    /\ loop.tick >= 0 => IsPrefix(trace, ExpectedOrder(loop.tick))
    /\ TickOver => trace = ExpectedOrder(loop.tick)
    /\ (variant = "v0" /\ last_op = "control" /\ pc = "reflex" /\ loop.tick % 10 = 0)
          => action_proposed
                = Some(V0ControlAction(ctrl.gain_tenths, obs, V0SemanticsAdvice(obs)))
    /\ (variant = "arm" /\ last_op = "shield" /\ pc = "env")
          => pre.reflex_flags = Some(ArmReflexFlags(obs))

\* C8: when N ticks of an episode have been executed, Semantics has run on
\* exactly the ticks t < N with t mod 10 = 0, Control on exactly those with
\* t mod 2 = 0, and Reflex and the Shield on every tick 0..N-1.
C8_Decimation ==
    /\ \A k \in hist.semantics : k % 10 = 0
    /\ \A k \in hist.control : k % 2 = 0
    /\ TickOver =>
          LET ticks == 0..loop.tick IN
          /\ hist.semantics = { k \in ticks : k % 10 = 0 }
          /\ hist.control = { k \in ticks : k % 2 = 0 }
          /\ hist.reflex = ticks
          /\ hist.shield = ticks

-----------------------------------------------------------------------------
(* Claims about Reflex                                                      *)

\* the observation carries the joint state the arm Reflex reads
ReflexReadable(o) ==
    variant = "arm" => { "theta1", "theta2", "omega1", "omega2" } \subseteq DOMAIN o

\* the flags Reflex.step computes from an observation and a proposal
FlagsOf(o, proposal) ==
    IF variant = "v0" THEN V0ReflexComputed(o, proposal) ELSE Some(ArmReflexFlags(o))

\* C11: Reflex.step changes no shared-state field other than reflex_flags:
\* action_proposed, action_final, semantics_advice, obs, tick and t are as
\* before the call, also when action_proposed is absent.
C11_ReflexWritesOnlyFlags ==
    last_op = "reflex" =>
        /\ action_proposed = pre.action_proposed
        /\ action_final = pre.action_final
        /\ semantics_advice = pre.semantics_advice
        /\ obs = pre.obs
        /\ tick = pre.tick /\ t = pre.t
        /\ brain_name = pre.brain_name
        /\ shield_interventions = pre.shield_interventions
        /\ events = pre.events

C11_Witness ==
    /\ last_op = "reflex" /\ raised = "" /\ pc = "caller"
    /\ IsNone(pre.action_proposed) /\ ~IsNone(pre.action_final)
    /\ reflex_flags # pre.reflex_flags

\* C12: every Reflex.step call replaces the whole flags record: afterwards
\* reflex_flags is the record computed from the current observation and
\* proposal, and nothing of the record that was there before the call is left.
C12_ReflexReplacesAllFlags ==
    (last_op = "reflex" /\ ReflexReadable(pre.obs)) =>
        /\ raised = ""
        /\ reflex_flags = FlagsOf(obs, action_proposed)

\* C13: in run_episode the flags the Shield reads at tick N are the ones
\* Reflex computed at tick N from the observation current at tick N (the one
\* the environment step of tick N-1 returned, or reset for N = 0).
C13_ShieldReadsSameTickFlags ==
    (last_op = "shield" /\ pc \in { "env", "crashed" }) =>
        /\ loop.tick \in hist.reflex
        /\ pre.obs = IF loop.tick > 0 THEN loop.new_obs
                     ELSE IF variant = "v0" THEN V0EnvReset(env).obs
                     ELSE ArmEnvReset(env).obs
        /\ pre.reflex_flags = FlagsOf(pre.obs, pre.action_proposed)

C13_Witness ==
    /\ last_op = "shield" /\ pc = "env" /\ variant = "arm"
    /\ loop.tick % 2 = 1
    /\ pre.reflex_flags # Some(ArmReflexFlags(ArmEnvReset(env).obs))

-----------------------------------------------------------------------------
(* Claims about the arm ControlBand's reset guard and the Shield's          *)
(* construction (SpecAll)                                                   *)

\* C14: ControlBand.step on a band whose reset_episode was never called
\* raises at once: the policy is not invoked (the band's memory is as
\* before) and no shared-state field changes.  run_episode calls
\* reset_episode before its first Control step, so the error is never raised
\* inside an episode.
C14_ControlNeedsReset ==
    /\ (pc = "caller" /\ last_op = "control" /\ variant = "arm"
           /\ ~pre.ctrl.initialized)
          => (raised = "RuntimeError" /\ Snapshot = pre)
    /\ pc # "caller" => raised # "RuntimeError"
    /\ (pc = "control" /\ variant = "arm") => (ctrl.initialized /\ env.state # None)

C14_Witness ==
    /\ pc = "caller" /\ last_op = "control" /\ raised = "RuntimeError"
    /\ ~IsNone(action_proposed)

\* C15: a Safety Shield cannot be constructed with u_min > u_max, in either
\* package: the constructor raises, so no Shield with an empty bound interval
\* exists.
C15_InvertedBoundsRejected ==
    /\ cfg.u_min <= cfg.u_max
    /\ (last_op = "construct" /\ raised = "")
          => Val(ret).u_min <= Val(ret).u_max

-----------------------------------------------------------------------------
(* Claims about how run_episode ends                                        *)

\* run_episode has been left, by its return statement or by an exception
EpisodeOver == pc \in { "returned", "crashed" }

\* the environment signalled done on the tick under way
DoneSignalled == loop.done /\ loop.tick \in hist.env

\* C16: every run_episode call ends; it runs at most max_ticks ticks, and
\* after the first tick on which the environment signals done it runs no
\* band, no Shield call and no environment step.
C16_EpisodeTerminates ==
    /\ <>EpisodeOver
    /\ [](pc # "caller" =>
            /\ loop.tick < loop.max_ticks \/ loop.tick = -1
            /\ hist.env \subseteq 0..(loop.max_ticks - 1)
            /\ DoneSignalled => pc \in { "obs", "finish", "returned", "crashed" })
    /\ [][DoneSignalled => (hist' = hist /\ env' = env /\ tick' = tick)]_vars

C16_Witness ==
    /\ pc = "returned" /\ DoneSignalled
    /\ loop.tick + 1 < loop.max_ticks
    /\ hist.env = 0..loop.tick

\* C17: run_episode returns statistics whose ticks field is the number of
\* ticks executed, that is of environment steps performed, for every
\* max_ticks >= 0, whether the environment completed or max_ticks ran out.
C17_TicksCountsEnvSteps ==
    (EpisodeOver /\ pc # "caller") =>
        /\ raised = ""
        /\ ~IsNone(ret)
        /\ Val(ret).ticks = Cardinality(hist.env)

-----------------------------------------------------------------------------
(* Claims about Event Packs                                                 *)

\* the Event Pack of the Shield call just made (v0 returns it, arm appends it)
LastEvent == IF variant = "v0" THEN Val(Val(ret).event) ELSE events[Len(events)]

\* the flags select the stricter bound: near the boundary (v0), a joint near
\* its limit (arm)
StricterBoundActive(s) ==
    IF variant = "v0" THEN s.reflex_flags.near_boundary
    ELSE /\ ~IsNone(s.reflex_flags)
         /\ Val(s.reflex_flags).joint1_near_limit \/ Val(s.reflex_flags).joint2_near_limit

\* C19: an Event Pack emitted for a clipped proposal has reason
\* clip_near_boundary when the stricter hazard bound was active and
\* clip_out_of_bounds when the nominal bound was; a proposal above u_max (by
\* more than the single-DOF comparison tolerance) with no hazard flag set
\* gives final u_max and one event with reason clip_out_of_bounds.
C19_ClipReasonNamesBound ==
    (last_op = "shield" /\ pc = "caller" /\ ~MismatchFlagged(pre)
        /\ cfg.u_min <= cfg.u_max) =>
        /\ EventEmitted =>
              LastEvent.reason = IF StricterBoundActive(pre) THEN "clip_near_boundary"
                                 ELSE "clip_out_of_bounds"
        /\ ( /\ ~HazardFlagged(pre)
             /\ \A c \in Components(ProposedOf(pre)) :
                   c > cfg.u_max + (IF variant = "v0" THEN V0_EPS ELSE 0) )
           => /\ raised = ""
              /\ \A c \in Components(Val(action_final)) : c = cfg.u_max
              /\ EventEmitted
              /\ LastEvent.reason = "clip_out_of_bounds"

\* C20: an Event Pack records the tick and timestamp of the Shield call that
\* produced it, band "SafetyShield", the proposal and the final action of
\* that call and the observation as it was then (before that tick's
\* environment step); a logged event never changes afterwards, whatever
\* happens to the shared state or its observation.
C20_EventPackFaithful ==
    /\ []((last_op = "shield" /\ raised = "" /\ EventEmitted) =>
            /\ LastEvent.tick = pre.tick
            /\ LastEvent.timestamp = pre.t
            /\ LastEvent.band = "SafetyShield"
            /\ LastEvent.action_proposed = ProposedOf(pre)
            /\ LastEvent.action_final = Val(action_final)
            /\ LastEvent.obs_before = pre.obs)
    /\ [](pc \in { "env", "obs" } =>
            \A i \in 1..Len(events) :
                events[i].tick = loop.tick => events[i].obs_before = obs)
    /\ [][last_op' # "reset" =>
            /\ Len(events') >= Len(events)
            /\ \A i \in 1..Len(events) : events'[i] = events[i]]_vars

C20_Witness ==
    /\ pc = "returned" /\ Len(events) >= 2
    /\ events[1].obs_before # obs
    /\ events[1].obs_before # events[Len(events)].obs_before
    /\ events[1].action_proposed # events[1].action_final

-----------------------------------------------------------------------------
(* Claims about repeated run_episode calls (SpecSessions).                  *)

InEpisode == pc \notin { "caller", "start" }

\* C21: every Event Pack of an arm run_episode carries in its metadata the
\* brain_name of the ControlBand of that episode, and never "unknown" when
\* the band was given a name.
C21_EventsCarryBrainName ==
    (variant = "arm" /\ InEpisode) =>
        \A i \in 1..Len(events) :
            /\ events[i].metadata.brain_name = ctrl.brain_name
            /\ ctrl.brain_name # "unknown" => events[i].metadata.brain_name # "unknown"

C21_Witness ==
    /\ variant = "arm" /\ pc = "returned" /\ events # << >>
    /\ prev # None /\ Val(prev).events # << >>
    /\ Val(prev).brain # ctrl.brain_name

JsonLine(e) == IF variant = "v0" THEN V0JsonLine(e) ELSE ArmJsonLine(e)

\* C22: when a logging session (a run_episode call) is over, the JSONL file
\* holds one line per Event Pack of that session, in event order, and
\* nothing of an earlier session on the same path, also when the session
\* produced no event.
C22_FileHoldsLastSession ==
    pc = "returned" =>
        file = [i \in 1..Len(events) |-> JsonLine(events[i])]

\* C23: Semantics cannot affect the action path: the proposal Control writes
\* is the one it would have written on a shared state that differs only in
\* semantics_advice (Reflex and the Shield are not handed the advice at all).
C23_AdviceDoesNotReachActions ==
    (pc = "caller" /\ last_op = "control" /\ raised = "") =>
        IF variant = "v0"
        THEN \A a \in V0AdviceSet :
                action_proposed = Some(V0ControlAction(pre.ctrl.gain_tenths, pre.obs, a))
        ELSE \A a \in { None, Some(ArmSemanticsAdvice(ArmObsAt(0, 0, 0, 0, 1000, 0, 0))) } :
                action_proposed \in
                    { Some(b.tau) : b \in ArmBrainStep(pre.ctrl.brain_name,
                                                       pre.ctrl.brain_state) }

\* what Semantics computes from an observation
AdviceOf(o) == IF variant = "v0" THEN V0SemanticsAdvice(o) ELSE Some(ArmSemanticsAdvice(o))

\* C24: in run_episode the advice is replaced as a whole by every Semantics
\* execution and changed by nothing else: at every tick t, once the bands of
\* the tick run, it is what Semantics computed from the observation of tick
\* SEMANTICS_PERIOD * floor(t / SEMANTICS_PERIOD).
C24_AdviceHeldBetweenSemantics ==
    /\ []((pc \in { "control", "reflex", "shield", "env", "obs" } /\ raised = "") =>
            /\ hist.sem_input # None
            /\ Val(hist.sem_input).tick = SEMANTICS_PERIOD * (loop.tick \div SEMANTICS_PERIOD)
            /\ semantics_advice = AdviceOf(Val(hist.sem_input).obs))
    /\ [][semantics_advice' # semantics_advice =>
            last_op' \in { "semantics", "reset" }]_vars

C24_Witness ==
    /\ pc = "returned" /\ loop.tick = SEMANTICS_PERIOD
    /\ semantics_advice # AdviceOf(ArmEnvReset(ArmEnvNew).obs)
    /\ semantics_advice # AdviceOf(obs)

\* C25: the arm Control band hands its policy an empty memory at the first
\* Control execution of every episode, also of a second run_episode with the
\* same ControlBand; at every Control execution it keeps the memory the
\* policy returned, which is the memory handed over at the next one, because
\* nothing but Control, the episode reset and the caller's choice of a band
\* touches it.
C25_PolicyMemoryLifecycle ==
    /\ []((variant = "arm" /\ InEpisode /\ last_op = "control" /\ raised = "") =>
            /\ hist.control = { loop.tick } => pre.ctrl.brain_state = << >>
            /\ ctrl.brain_state \in
                  { b.state : b \in ArmBrainStep(pre.ctrl.brain_name,
                                                 pre.ctrl.brain_state) })
    /\ [][(variant = "arm" /\ pc # "caller" /\ ctrl' # ctrl) =>
            last_op' \in { "control", "reset", "again" }]_vars

C25_Witness ==
    /\ variant = "arm" /\ prev # None
    /\ Val(prev).brain = "alternating" /\ ctrl.brain_name = "alternating"
    /\ Val(prev).applied # << >>
    /\ last_op = "control" /\ loop.tick = CONTROL_PERIOD
    /\ pre.ctrl.brain_state = << 1 >> /\ ctrl.brain_state = << 0 >>

V0FlagFields ==
    { "near_boundary", "too_fast", "distance_to_boundary", "sensor_mismatch",
      "mismatch_magnitude" }

\* C26: in the single-DOF variant Reflex.step completes on any shared state,
\* Shield.apply completes on a state whose flags are still the defaults and
\* treats them as no hazard (the full bounds apply), and the flags record of
\* a state made by run_episode carries every field Reflex writes and the
\* Shield reads.
C26_FlagsCarryEveryField ==
    variant = "v0" =>
        /\ last_op = "reflex" => raised = ""
        /\ (last_op = "shield" /\ pre.reflex_flags = V0DefaultReflexFlags
               /\ cfg.u_min <= cfg.u_max) =>
              /\ raised = ""
              /\ action_final = Some(Clamp(ProposedOf(pre), cfg.u_min, cfg.u_max))
        /\ (pc \notin { "caller", "start" }) => V0FlagFields \subseteq DOMAIN reflex_flags

\* the run_episode call that just ended was given what the call before was
SameConfiguration ==
    /\ prev # None
    /\ Val(prev).max_ticks = loop.max_ticks
    /\ Val(prev).cfg = cfg
    /\ Val(prev).brain = IF variant = "v0" THEN "" ELSE ctrl.brain_name

\* C27: run_episode is deterministic: a call with the configuration of the
\* call before (environment, policy, shield bounds, max_ticks) hands the same
\* sequence of final actions to the environment, logs the same sequence of
\* Event Packs and ends with the same statistics (or the same exception).
C27_RunEpisodeDeterministic ==
    (pc \in { "returned", "crashed" } /\ SameConfiguration) =>
        /\ hist.applied = Val(prev).applied
        /\ events = Val(prev).events
        /\ ret = Val(prev).ret
        /\ raised = Val(prev).raised

C27_Witness ==
    /\ variant = "arm" /\ pc = "returned" /\ SameConfiguration
    /\ Len(hist.applied) >= 3 /\ Len(events) >= 2
    /\ env.current_stage >= 1
    /\ Val(ret).ticks = Len(hist.applied)

\* the boolean hazard flags the Shield of the variant acts on
HazardFlagNames ==
    IF variant = "v0" THEN { "near_boundary", "too_fast" }
    ELSE { "joint1_near_limit", "joint2_near_limit", "joints_too_fast" }

\* the flags record a Shield call read, if there was one
FlagsRead(s) ==
    IF variant = "v0" THEN Some(s.reflex_flags) ELSE s.reflex_flags

\* C28: in both variants the metadata of every clip Event Pack carries the
\* values of the hazard flags the Shield acted on, the scale factor it
\* applied and the identifier of the active policy.
C28_MetadataCarriesContext ==
    (last_op = "shield" /\ raised = "" /\ EventEmitted) =>
        LET m == LastEvent.metadata IN
        /\ "scale_factor" \in DOMAIN m
        /\ "brain_name" \in DOMAIN m
        /\ \A f \in HazardFlagNames :
              /\ f \in DOMAIN m
              /\ FlagsRead(pre) # None => m[f] = Val(FlagsRead(pre))[f]

\* C29: at every point of an episode the event log is in strictly increasing
\* tick order, every logged tick is one on which the scheduler ran the
\* Shield, and during the episode the log only grows at its end: what is
\* logged is never reordered, removed or altered.
C29_LogAppendOnlyInTickOrder ==
    /\ [](InEpisode =>
            /\ \A i, j \in 1..Len(events) : i < j => events[i].tick < events[j].tick
            /\ \A i \in 1..Len(events) :
                  events[i].tick \in hist.shield /\ events[i].tick <= loop.tick)
    /\ [][(pc # "caller" /\ last_op' # "reset") => IsPrefix(events, events')]_vars

C29_Witness ==
    /\ pc = "shield" /\ Len(events) >= 3
    /\ \E i \in 1..(Len(events) - 1) : events[i + 1].tick > events[i].tick + 1
    /\ loop.tick > events[Len(events)].tick

\* a band, the Shield or the environment step of the current tick is running
BandsRunning == pc \in { "semantics", "control", "reflex", "shield", "env", "obs" }

\* C30: only the scheduler writes the clock: during run_episode state.tick
\* takes the values 0, 1, 2, ..., one more per loop iteration, state.t is
\* state.tick * dt whenever a band or the Shield runs, and no band, Shield
\* call or environment step changes tick or t.
C30_ClockOwnedByScheduler ==
    /\ [](BandsRunning => (tick = loop.tick /\ t = tick * DT_UNITS))
    /\ [][(pc = "loop" /\ BandsRunning') =>
            /\ tick' = loop.tick + 1
            /\ loop.tick >= 0 => tick' = tick + 1]_vars
    /\ [][(pc # "loop" /\ pc # "caller") => (tick' = tick /\ t' = t)]_vars

C30_Witness ==
    /\ pc = "env" /\ tick = 3 /\ t = 3 * DT_UNITS
    /\ hist.shield = 0..3 /\ hist.env = 0..2
    /\ action_final # None /\ Len(hist.applied) = 3

-----------------------------------------------------------------------------
(* Claims about what the bands, the Shield and the environments compute.    *)

\* distance of a value to the nearer of two limits
NearerLimit(v, lo, hi) == Min(Abs(v - lo), Abs(hi - v))

\* C31: Reflex.step returns and its flags hold, per degree of freedom, the
\* distance to the nearer limit and a near-limit flag that is set exactly
\* when that distance is inside the margin; too-fast is set exactly when the
\* velocity (arm) or the magnitude of the proposal (single-DOF, absent taken
\* as 0) exceeds the threshold; single-DOF, sensor_mismatch is set exactly
\* when |x_true - x_meas| exceeds the mismatch threshold and
\* mismatch_magnitude is that difference.
C31_ReflexFlagsComputed ==
    (last_op = "reflex" /\ ReflexReadable(pre.obs)) =>
        /\ raised = ""
        /\ IF variant = "v0"
           THEN LET x_true == Get(pre.obs, "x_true", Get(pre.obs, "x", 0))
                    x_meas == Get(pre.obs, "x_meas", Get(pre.obs, "x", 0))
                    d      == NearerLimit(x_true, 0, V0_ONE)
                IN  /\ reflex_flags.distance_to_boundary = d
                    /\ reflex_flags.near_boundary = (d < V0_BOUNDARY_MARGIN)
                    /\ reflex_flags.too_fast =
                          (Abs(ProposedOf(pre)) > V0_SPEED_THRESHOLD)
                    /\ reflex_flags.mismatch_magnitude = Abs(x_true - x_meas)
                    /\ reflex_flags.sensor_mismatch =
                          (Abs(x_true - x_meas) > V0_MISMATCH_THRESHOLD)
           ELSE LET f    == Val(reflex_flags)
                    d1   == NearerLimit(pre.obs.theta1, THETA_MIN, THETA_MAX)
                    d2   == NearerLimit(pre.obs.theta2, THETA_MIN, THETA_MAX)
                    fast == (VELOCITY_FAST_TENTHS * OMEGA_MAX) \div 10
                IN  /\ f.joint1_distance_to_limit = d1
                    /\ f.joint2_distance_to_limit = d2
                    /\ f.joint1_near_limit = (d1 <= JOINT_LIMIT_MARGIN)
                    /\ f.joint2_near_limit = (d2 <= JOINT_LIMIT_MARGIN)
                    /\ f.joints_too_fast = ( \/ Abs(pre.obs.omega1) > fast
                                             \/ Abs(pre.obs.omega2) > fast )

\* the observation shows a sensor mismatch above the threshold
ObsMismatch(o) ==
    Abs(Get(o, "x_true", Get(o, "x", 0)) - Get(o, "x_meas", Get(o, "x", 0)))
        > V0_MISMATCH_THRESHOLD

\* C32: in a single-DOF run_episode with sensor glitches enabled every tick
\* the loop has entered gets its environment step: with action 0 and a
\* stop_sensor_mismatch event of that tick when the tick's observation shows
\* a mismatch above the threshold, and with the normally clipped proposal as
\* soon as the observation shows none.
C32_StopOnlyDuringGlitch ==
    (variant = "v0" /\ env.kind = "toy" /\ env.enable_glitches /\ loop.tick >= 0
        /\ pc \in { "obs", "loop", "finish", "returned", "crashed" }) =>
        /\ raised = ""
        /\ loop.tick \in hist.env
        /\ IF ObsMismatch(pre.obs)
           THEN /\ loop.u_applied = Some(0)
                /\ events # << >>
                /\ events[Len(events)].tick = loop.tick
                /\ events[Len(events)].reason = "stop_sensor_mismatch"
           ELSE LET half == pre.reflex_flags.near_boundary
                    lo   == IF half THEN cfg.u_min \div 2 ELSE cfg.u_min
                    hi   == IF half THEN cfg.u_max \div 2 ELSE cfg.u_max
                IN  loop.u_applied = Some(Clamp(ProposedOf(pre), lo, hi))

\* the number of hazard classes active in the flags a Shield call read
HazardClasses(s) ==
    IF IsNone(s.reflex_flags) THEN 0
    ELSE LET f == Val(s.reflex_flags) IN
         (IF f.joint1_near_limit \/ f.joint2_near_limit THEN 1 ELSE 0)
         + (IF f.joints_too_fast THEN 1 ELSE 0)

\* near_limit_scale to the power k, in quarters
ScalePower(c, k) ==
    IF k = 0 THEN SCALE_ONE
    ELSE IF k = 1 THEN c.near_limit_scale
    ELSE (c.near_limit_scale * c.near_limit_scale) \div SCALE_ONE

\* C33: the arm Shield's final action is, per component,
\* clip(proposed * s, u_min, u_max) with s = near_limit_scale^k, k the number
\* of active hazard classes (near-limit on either joint once, too-fast once),
\* so s is 1, 0.5 or 0.25 with the defaults; an event's metadata has
\* scale_factor = s and scaled true exactly when s is not 1.
C33_ArmScaleThenClip ==
    (variant = "arm" /\ last_op = "shield") =>
        LET sc == ScalePower(cfg, HazardClasses(pre))
            p  == ProposedOf(pre)
        IN  /\ raised = ""
            /\ sc \in { SCALE_ONE, SCALE_ONE \div 2, SCALE_ONE \div 4 }
            /\ action_final = Some(<< Clamp((p[1] * sc) \div SCALE_ONE, cfg.u_min, cfg.u_max),
                                      Clamp((p[2] * sc) \div SCALE_ONE, cfg.u_min, cfg.u_max) >>)
            /\ EventEmitted =>
                  /\ LastEvent.metadata.scale_factor = sc
                  /\ LastEvent.metadata.scaled = (sc # SCALE_ONE)

C33_Witness ==
    /\ variant = "arm" /\ last_op = "shield" /\ pc = "caller"
    /\ HazardClasses(pre) = 2 /\ EventEmitted
    /\ LastEvent.metadata.scale_factor = SCALE_ONE \div 4
    /\ Val(action_final)[1] = -TAU_MAX /\ Val(action_final)[2] = 21

\* C34: on every odd tick of run_episode the proposal the Shield is about to
\* read is the one it read on the even tick before (held, neither recomputed
\* nor cleared), while the observation and the reflex flags it reads are
\* those of the odd tick: the observation the environment returned on the
\* tick before and the flags Reflex computed from it on this tick.
C34_ProposalHeldOnOddTicks ==
    (pc = "shield" /\ loop.tick % CONTROL_PERIOD = 1) =>
        /\ hist.shield_input # None
        /\ Val(hist.shield_input).tick = loop.tick - 1
        /\ action_proposed # None
        /\ action_proposed = Val(hist.shield_input).proposed
        /\ loop.tick \notin hist.control
        /\ obs = loop.new_obs
        /\ loop.tick \in hist.reflex
        /\ reflex_flags = FlagsOf(obs, action_proposed)

C34_Witness ==
    /\ variant = "arm" /\ pc = "shield" /\ loop.tick = 3
    /\ action_proposed = Val(hist.shield_input).proposed
    /\ obs # Val(hist.shield_input).obs
    /\ reflex_flags # Val(hist.shield_input).flags
    /\ action_proposed # Some(Val(action_final))

\* C35: inside run_episode the proposal is present whenever the Shield is
\* about to run and action_final is present whenever the environment is
\* about to be stepped (Control runs at tick 0 before the first Shield
\* call), so neither the Shield's default for an absent proposal nor the
\* scheduler's all-zero fallback is used during an episode.
C35_DefaultsNeverUsedInEpisode ==
    /\ pc = "shield" => action_proposed # None
    /\ pc = "env" => (action_final # None /\ StepAction = Val(action_final))
    /\ (InEpisode /\ last_op = "shield") => pre.action_proposed # None

C35_Witness ==
    /\ variant = "arm" /\ prev # None /\ Val(prev).applied # << >>
    /\ pc = "env" /\ loop.tick = 0
    /\ pre.action_proposed # None /\ pre.action_final = None

\* C36: in the arm variant the intervention counter is 0 when an episode
\* starts, never decreases, grows by at most 1 per tick and only in the
\* Shield call, and equals the number of Event Packs in the logger's list
\* throughout the episode; the shield_interventions that run_episode
\* returns is the length of that list, also when the logger held events of
\* an earlier episode.
C36_CounterMatchesLog ==
    /\ []((variant = "arm" /\ InEpisode) => shield_interventions = Len(events))
    /\ []((variant = "arm" /\ last_op = "reset") => shield_interventions = 0)
    /\ []((variant = "arm" /\ pc = "returned") =>
            Val(ret).interventions = Len(events))
    /\ [][(variant = "arm" /\ InEpisode) =>
            /\ shield_interventions' \in { shield_interventions, shield_interventions + 1 }
            /\ shield_interventions' # shield_interventions => pc = "shield"]_vars

C36_Witness ==
    /\ variant = "arm" /\ pc = "returned" /\ prev # None
    /\ Len(Val(prev).events) >= 1 /\ Len(events) >= 1
    /\ Len(events) # Len(Val(prev).events)
    /\ Val(ret).interventions = Len(events)
    /\ shield_interventions = Len(events)

\* the end-effector is within WORKSPACE_TOL of waypoint number stage
AtWaypoint(ee, stage) ==
    LET dx == Waypoint(stage)[1] - ee[1]
        dy == Waypoint(stage)[2] - ee[2]
    IN  dx * dx + dy * dy <= WORKSPACE_TOL * WORKSPACE_TOL

ArmStepped == variant = "arm" /\ last_op \in { "env_step", "env_hold" } /\ raised = ""

\* C37: in the arm environment the stage index is 0 after reset, never
\* decreases in a step, increases by at most 1 per step and stays at most the
\* last waypoint index; done with reason all_waypoints_reached is returned
\* only by a step taken at the last stage, after waypoints 0, 1, 2 were
\* reached in that order; and a step that reaches the last waypoint reports
\* all_waypoints_reached even when it is also the step that exhausts
\* MAX_STEPS.
C37_StagesInOrder ==
    /\ []((variant = "arm" /\ last_op = "env_reset") => env.current_stage = 0)
    /\ []((variant = "arm" /\ env.state # None) => env.current_stage \in 0..LAST_STAGE)
    /\ [][ArmStepped' =>
            /\ env'.current_stage \in { env.current_stage, env.current_stage + 1 }
            /\ Val(ret').reason = "all_waypoints_reached" =>
                  (env.current_stage = LAST_STAGE /\ Val(ret').done)
            /\ (env.current_stage = LAST_STAGE /\ AtWaypoint(env'.ee, LAST_STAGE)) =>
                  (Val(ret').done /\ Val(ret').reason = "all_waypoints_reached")]_vars
    /\ []((ArmStepped /\ Val(ret).reason = "all_waypoints_reached") =>
            (Len(trace) >= 3 /\ trace[1] = 0 /\ trace[2] = 1 /\ trace[3] = 2))

C37_Witness ==
    /\ ArmStepped /\ Val(ret).done
    /\ Val(ret).reason = "all_waypoints_reached"
    /\ env.step_count = ARM_MAX_STEPS
    /\ trace = << 0, 1, 2 >>

\* C38: whatever action is handed to step, the single-DOF position stays in
\* [0, 1], each arm joint angle stays in [THETA_MIN, THETA_MAX] and each joint
\* velocity in [-OMEGA_MAX, OMEGA_MAX], and an arm step with a torque outside
\* [-TAU_MAX, TAU_MAX] has the effect of the step with the clamped torque.
C38_EnvKeepsItsLimits ==
    /\ [](variant = "v0" => (0 <= env.x /\ env.x <= V0_ONE))
    /\ []((variant = "arm" /\ env.state # None) =>
            /\ THETA_MIN <= env.state.theta1 /\ env.state.theta1 <= THETA_MAX
            /\ THETA_MIN <= env.state.theta2 /\ env.state.theta2 <= THETA_MAX
            /\ -OMEGA_MAX <= env.state.omega1 /\ env.state.omega1 <= OMEGA_MAX
            /\ -OMEGA_MAX <= env.state.omega2 /\ env.state.omega2 <= OMEGA_MAX)
    /\ [][ArmStepped' =>
            LET u  == hist'.applied[Len(hist'.applied)]
                c1 == Max(-TAU_MAX, Min(TAU_MAX, u[1]))
                c2 == Max(-TAU_MAX, Min(TAU_MAX, u[2]))
                w1 == env.state.omega1 - Quot(env.state.omega1, DAMP_DEN)
                w2 == env.state.omega2 - Quot(env.state.omega2, DAMP_DEN)
            IN  /\ env'.state.omega1 = Max(-OMEGA_MAX, Min(OMEGA_MAX, w1 + c1))
                /\ env'.state.omega2 = Max(-OMEGA_MAX, Min(OMEGA_MAX, w2 + c2))]_vars

\* a torque above TAU_MAX applied with joint 1 at its angle and velocity limits
C38_Witness ==
    /\ ArmStepped
    /\ last_op = "env_step"
    /\ hist.applied = << << 200, 200 >>, << 200, 200 >> >>
    /\ env.state.omega1 = OMEGA_MAX /\ env.state.theta1 = THETA_MAX
    /\ env.state.omega2 = OMEGA_MAX /\ env.state.theta2 = THETA_MAX
    /\ env.step_count = ArmHoldSteps + 1

\* C39: in the single-DOF run_episode Semantics has run before every Control
\* step, the confidence Control reads is at least 0.5, so the branch that
\* halves the proposal is not taken and the proposal written is
\* gain * (x_target - x); and every advice Semantics writes, in an episode or
\* called directly, has confidence 0.9 or min(0.5 + |error|, 1.0), at least
\* 0.5.
C39_ControlSeesConfidentAdvice ==
    /\ (variant = "v0" /\ InEpisode /\ last_op = "control") =>
          /\ hist.semantics # {}
          /\ pre.semantics_advice.confidence >= V0_CONF_BASE
          /\ ~(pre.semantics_advice.confidence < V0_CONF_LOW)
          /\ action_proposed =
                Some((ctrl.gain_tenths * (obs.x_target - obs.x)) \div 10)
    /\ (variant = "v0" /\ last_op = "semantics" /\ raised = "") =>
          LET e == Abs(Get(obs, "x_target", 0) - Get(obs, "x", 0)) IN
          /\ semantics_advice.confidence \in { V0_CONF_CLOSE, Min(V0_CONF_BASE + e, V0_ONE) }
          /\ semantics_advice.confidence >= V0_CONF_BASE

C39_Witness ==
    /\ variant = "v0" /\ InEpisode /\ last_op = "control"
    /\ pre.semantics_advice.confidence = V0_ONE
    /\ action_proposed = Some(210000000)

====
